---- MODULE Spec2Model ----
(***************************************************************************)
(* Verification model of the Shopee webhook pipeline:                      *)
(*   - Receiver: webhook endpoint, forwarder, Redis producer, circuit      *)
(*     breaker (shopee_api)                                                *)
(*   - Worker: Redis consumer pool with retry and dead letter queue,       *)
(*     DLQ replay, reconciliation sync lock (shopee_worker)                *)
(*   - Upstream API client: access-token refresh (shopee_api/api)          *)
(* Each subsystem has its own specification over the shared variables.     *)
(***************************************************************************)
EXTENDS Integers, Sequences, FiniteSets, TLC

(***************************************************************************)
(* Program constants                                                       *)
(***************************************************************************)
\* RedisCircuitBreaker.__init__ defaults
Threshold == 5
Timeout == 60
\* settings.redis_max_retries
redis_max_retries == 3
\* forwarder.MAX_RETRIES
MAX_RETRIES == 3
\* constants.ORDER_EVENT_CODES and constants.IGNORE_STATUSES
ORDER_EVENT_CODES == {3, 4}
IGNORE_STATUSES == {"UNPAID"}
\* telegram_queue: DEFAULT_MESSAGES_PER_MINUTE, MAX_RETRIES, STOP_TIMEOUT
DEFAULT_MESSAGES_PER_MINUTE == 15
TELEGRAM_MAX_RETRIES == 3
STOP_TIMEOUT == 30
\* stop_consumer_workers: seconds the pool waits before cancelling the tasks
StopGrace == 30
\* constants.SYNC_TIMEOUT_SECONDS
SYNC_TIMEOUT_SECONDS == 600
\* client.TOKEN_EXPIRATION_DEFAULT
TOKEN_EXPIRATION_DEFAULT == 7200

(***************************************************************************)
(* Bounds of the model                                                     *)
(***************************************************************************)
\* the concurrent forward_webhook callers (background tasks)
Callers == {1, 2}
\* total number of forward_webhook calls explored
MaxCalls == 6
\* the clock stops advancing at MaxTime
MaxTime == 61
\* amounts by which the clock advances in one step
TickSteps == {60, 61}
\* order serial numbers of the webhook events
OrderSns == {"A1"}

\* the consumer workers of the pool (worker_id)
Workers == {1, 2}
\* order serial numbers of the envelopes queued for the pool, oldest first
QueuedOrderSns == <<"A1", "A2">>
\* the replay_all (POST /dlq/retry) requests explored
ReplayRequests == {"r1"}
\* number of dead letter entries one replay_all request may pop
MaxMoves == 2

\* number of requests to the webhook endpoint explored
MaxRequests == 3
\* the clock of the reconciliation stops advancing at MaxSyncTime
MaxSyncTime == 1200
\* amounts by which the clock of the reconciliation advances in one step
SyncTickSteps == {599, 600}
\* number of _make_request calls explored
MaxApiCalls == 4
\* the ShopeeAPIClient instances of one process
Clients == {1, 2}
\* expire_in values of the token refresh response
ExpireIns == {300, TOKEN_EXPIRATION_DEFAULT}

\* the notifier's clock stops advancing at MaxClock
MaxClock == 66
\* number of messages waiting in the notifier queue when a burst is paced
BurstSize == 16
\* number of send_event calls explored
MaxMessages == 3
\* consumer tasks created in a run
MaxStarts == 3
\* orders in the list of a sync
MaxOrders == 3
\* startups of the worker
MaxStartups == 3
\* seconds explored after the first startup
MaxElapsed == 6
\* the tasks start() creates, in the order of their creation
TaskIds == 1..MaxStarts
\* seconds a blocking _send_direct call may take
SendDurations == {0, 1}
\* amounts by which the notifier's clock advances in one step
\* most items of an order and of a settlement
MaxItems == 2
\* most chunks of a configured key
MaxKeyLen == 2
\* number of upsert_order_items calls explored
MaxUpserts == 3
ClockSteps == {8, STOP_TIMEOUT}

\* marker for a key that is absent from a JSON object
Absent == -1
\* id of a message that carries no "id" key
NoId == <<>>

VARIABLES
    now,              \* time.time(), in seconds
    circuit_breaker,  \* RedisCircuitBreaker: state, failure_count, opened_at
    main,             \* Redis list shopee:webhooks:main, head first
    dead_letter,      \* Redis list shopee:webhooks:dead_letter, head first
    stats,            \* Redis hash shopee:webhooks:stats
    forward_url,      \* WebhookForwarder.forward_url is set
    redis_queue,      \* WebhookForwarder.redis_queue is attached
    ppc,              \* per caller: position inside forward_webhook / publish
    pev,              \* per caller: event_payload of the current call
    pmsg,             \* per caller: the message publish() built
    hattempt,         \* per caller: attempt of _forward_via_http
    retry_delay,      \* per caller: argument of the current backoff sleep
    fres,             \* what the forward_webhook call returned in the last step
    calls,            \* number of forward_webhook calls started
    pub,              \* per caller: outcome of publish() in the current call
    posts,            \* per caller: HTTP POSTs issued in the current call
    consecutive,      \* failed publishes recorded since the last successful one
    is_running,       \* per worker: RedisWebhookConsumer.is_running
    wpc,              \* per worker: position of the task running start()
    wmsg,             \* per worker: the message in hand
    attempt,          \* per worker: loop variable of _process_with_retry
    wait_time,        \* per worker: argument of the current backoff sleep
    wsuccess,         \* per worker: what _process_with_retry returned
    invoked,          \* per worker: process_webhook calls for the message in hand
    dlq_pushes,       \* per worker: dead_letter LPUSHes done for the message
    last_outcome,     \* per worker: how the last process_webhook call ended
    api_answer,       \* per worker: what the upstream API answered in that call
    stopping,         \* position of stop_consumer_workers
    stopped_at,       \* time at which stop_consumer_workers began to wait
    processed,        \* order serial numbers a worker processed successfully
    rpc,              \* position of retry_dlq_messages
    rmsg,             \* retry_dlq_messages: the reset message being re-enqueued
    retried,          \* retry_dlq_messages: local counter
    failed,           \* retry_dlq_messages: local counter
    rlog,             \* entries the current replay popped and what it pushed
    rres,             \* response of the last retry_dlq_messages request
    replays,          \* number of retry_dlq_messages requests started
    debug_webhook,    \* environment: DEBUG_WEBHOOK is "1"
    downstream_up,    \* Redis, upstream API and chat API are available
    received,         \* number of requests to the webhook endpoint
    response,         \* the last response of the webhook endpoint
    background_tasks, \* scheduled background tasks that have not run
    completed,        \* background tasks that ended, without and with error
    sync_lock,        \* Redis key shopee:reconciliation:sync_in_progress
    spc,              \* per sync variant: position in sync_orders_in_range
    sync_history,     \* Redis list shopee:reconciliation:sync_history
    sync_result,      \* per sync: the SyncResult it built
    last_sync_timestamp,      \* Redis key ...:last_sync_timestamp
    last_full_sync_timestamp, \* Redis key ...:last_full_sync_timestamp
    recorded,         \* every SyncResult pushed to the history, newest first
    tokens,           \* the stored tokens (file and cache)
    tpc,              \* per request: position in _make_request
    api_calls,        \* number of _make_request calls started
    refresh_posts,    \* number of POSTs to the token refresh endpoint
    self_access_token, \* per client instance: ShopeeAPIClient.access_token
    owner,            \* per request: the client instance that makes it
    used_token,       \* per request: the access token its GET was sent with
    queue,            \* TelegramMessageQueue.queue, oldest first
    last_send_time,   \* TelegramMessageQueue.last_send_time
    q_is_running,     \* TelegramMessageQueue.is_running
    worker_task,      \* position of the task running _process_queue
    message_item,     \* _process_queue: the message in hand
    qattempt,         \* _send_with_retry: loop variable attempt
    send_response,    \* _send_with_retry: how the attempt before the sleep failed
    wake_at,          \* time at which the current sleep of the task ends
    qstats,           \* TelegramMessageQueue.stats
    pending,          \* add_message tasks send_event created, oldest first
    events_sent,      \* number of send_event calls
    started,          \* messages in the order of their first send attempt
    finished,         \* messages sent, or given up after the last retry
    stop_pc,          \* position of TelegramMessageQueue.stop
    drain_since,      \* time at which stop() began to wait for the queue
    drain_timed_out,  \* the wait of stop() for the queue timed out
    at_stop,          \* messages and total_queued when stop() was called
    window,           \* a 60 s window and the deliveries started in it
    fetch_pc,         \* fetch_order_details: "idle", "gather" or "done"
    api_response,     \* what get_order_detail gave to the gather
    escrow_response,  \* what get_escrow_detail gave to _fetch_escrow_data
    escrow_data,      \* what _fetch_escrow_data gave to the gather
    order_info,       \* what fetch_order_details returned
    worksheet,        \* the rows of the sheet below the header, top first
    upserts,          \* number of upsert_order_items calls made
    last_upsert,      \* the items and the outcome of the last call
    upserted,         \* per key: the values last written by a call, if any
    settings,         \* partner_key and webhook_partner_key of the settings
    validation,       \* the last validate_webhook_request call and its results
    config_file,      \* runtime_config.json: the text written so far
    config_cache,     \* RuntimeConfig._config
    cfg_pc,           \* where the process is in an update of the config
    hpc,              \* position of the task inside handle_webhook_event
    hev,              \* handle_webhook_event: the arguments of the call
    effects,          \* handle_webhook_event: what the call did so far
    handled,          \* number of handle_webhook_event calls started
    task,             \* per consumer task start() created: how far it got
    created,          \* tasks created; worker_task refers to the last one
    lpc,              \* per caller: position inside stop()
    awaited,          \* per caller: the task its stop() awaits
    split_message,    \* _split_long_message: the lines of its argument
    split_chunks,     \* _split_long_message: what it returned, if called
    sync_orders,      \* sync_orders_in_range: how each order of the list fared
    loop_result,      \* sync_orders_in_range: the counters of its SyncResult
    cpc,              \* startup_catchup_sync: position of the call
    time_from,        \* startup_catchup_sync: start of the window it syncs
    time_to,          \* startup_catchup_sync: end of the window it syncs
    written_to,       \* time_to of the sync that wrote last_sync_timestamp
    startups          \* number of worker startups

producerVars == <<circuit_breaker, forward_url, redis_queue, ppc, pev, pmsg,
                  hattempt, retry_delay, fres, calls, pub, posts, consecutive>>

workerVars == <<is_running, wpc, wmsg, attempt, wait_time, wsuccess, invoked,
                dlq_pushes, last_outcome, api_answer, stopping, stopped_at, processed>>

replayVars == <<rpc, rmsg, retried, failed, rlog, rres, replays>>

receiverVars == <<debug_webhook, downstream_up, received, response,
                  background_tasks, completed>>

syncVars == <<sync_lock, spc, sync_history, sync_result, last_sync_timestamp,
              last_full_sync_timestamp, recorded>>

\* what _record_sync_result writes
syncStore == <<sync_history, sync_result, last_sync_timestamp,
               last_full_sync_timestamp, recorded>>

tokenVars == <<tokens, tpc, api_calls, refresh_posts, self_access_token,
               owner, used_token>>

notifierVars == <<queue, last_send_time, q_is_running, worker_task,
                  message_item, qattempt, send_response, wake_at, qstats, pending, events_sent,
                  started, finished, stop_pc, drain_since,
                  drain_timed_out, at_stop, window>>

orderVars == <<fetch_pc, api_response, escrow_response, escrow_data,
               order_info>>

sheetVars == <<worksheet, upserts, last_upsert, upserted>>

\* the variables the route handlers and the API client do not touch
signatureVars == <<settings, validation>>

configVars == <<config_file, config_cache, cfg_pc>>

fanoutVars == <<hpc, hev, effects, handled>>

lifecycleVars == <<task, created, lpc, awaited>>

splitVars == <<split_message, split_chunks>>

loopVars == <<sync_orders, loop_result>>

catchupVars == <<cpc, time_from, time_to, written_to, startups>>

serviceVars == <<notifierVars, orderVars, sheetVars, signatureVars,
                 configVars, fanoutVars, lifecycleVars, splitVars, loopVars, catchupVars>>

\* the variables outside the queue path
apiVars == <<receiverVars, syncVars, tokenVars, serviceVars>>

vars == <<now, main, dead_letter, stats, producerVars, workerVars, replayVars,
          apiVars>>

\* variables the Receiver's forwarding path does not touch
notProducerVars == <<dead_letter, workerVars, replayVars, apiVars>>

(***************************************************************************)
(* Webhook events and queue messages                                       *)
(***************************************************************************)
\* RawEvent: the order events the Receiver forwards
Events == [code : {3}, ordersn : OrderSns, status : {"READY_TO_SHIP"}]

\* RedisWebhookQueue.publish: the message with metadata
Message(event_payload, t) ==
    [id |-> <<t, event_payload.ordersn>>,
     payload |-> event_payload,
     metadata |-> [enqueued_at |-> t,
                   retry_count |-> 0,
                   max_retries |-> redis_max_retries,
                   moved_to_dlq_at |-> Absent,
                   worker_id |-> Absent]]

NoMessage == [id |-> NoId, payload |-> [code |-> 0, ordersn |-> "", status |-> ""],
              metadata |-> [enqueued_at |-> Absent, retry_count |-> Absent,
                            max_retries |-> Absent, moved_to_dlq_at |-> Absent,
                            worker_id |-> Absent]]

(***************************************************************************)
(* RedisCircuitBreaker                                                     *)
(***************************************************************************)
record_success(cb) ==
    [state |-> "closed", failure_count |-> 0, opened_at |-> Absent]

\* variant: the circuit opens only after the threshold is exceeded
record_failure_gt(cb, t) ==
    LET n == cb.failure_count + 1 IN
    IF n > Threshold /\ cb.state = "closed"
    THEN [state |-> "open", failure_count |-> n, opened_at |-> t]
    ELSE [cb EXCEPT !.failure_count = n]

record_failure(cb, t) ==
    LET n == cb.failure_count + 1 IN
    IF n >= Threshold /\ cb.state = "closed"
    THEN [state |-> "open", failure_count |-> n, opened_at |-> t]
    ELSE [cb EXCEPT !.failure_count = n]

\* variant: half-open is entered as soon as the timeout is reached
should_attempt_redis_ge(cb, t) ==
    IF cb.state = "closed" THEN [ret |-> TRUE, cb |-> cb]
    ELSE IF cb.state = "open"
         THEN IF t - cb.opened_at >= Timeout
              THEN [ret |-> TRUE, cb |-> [cb EXCEPT !.state = "half_open"]]
              ELSE [ret |-> FALSE, cb |-> cb]
         ELSE [ret |-> TRUE, cb |-> cb]

\* returns the answer and the breaker after the call
should_attempt_redis(cb, t) ==
    IF cb.state = "closed" THEN [ret |-> TRUE, cb |-> cb]
    ELSE IF cb.state = "open"
         THEN IF t - cb.opened_at > Timeout
              THEN [ret |-> TRUE, cb |-> [cb EXCEPT !.state = "half_open"]]
              ELSE [ret |-> FALSE, cb |-> cb]
         ELSE [ret |-> TRUE, cb |-> cb]

(***************************************************************************)
(* WebhookForwarder.forward_webhook and RedisWebhookQueue.publish          *)
(***************************************************************************)
NoResult == [returned |-> FALSE, success |-> FALSE, method |-> "none",
             attempts |-> 0, publish |-> "none", posts |-> 0]

\* the variables local to one forward_webhook call
callVars == <<ppc, pev, pmsg, hattempt, retry_delay, posts, pub>>

\* result of forward_webhook, with the outcome of the publish() it made
Result(success, method, attempts, publish) ==
    [returned |-> TRUE, success |-> success, method |-> method,
     attempts |-> attempts, publish |-> publish, posts |-> 0]

\* forward_webhook returns result r; the locals of the call are dropped.
\* fres observes the return together with the POSTs the call issued
Return(p, r) ==
    /\ ppc' = [ppc EXCEPT ![p] = "idle"]
    /\ fres' = [r EXCEPT !.posts = posts[p]]
    /\ pub' = [pub EXCEPT ![p] = "none"]
    /\ pev' = [pev EXCEPT ![p] = NoMessage.payload]
    /\ pmsg' = [pmsg EXCEPT ![p] = NoMessage]
    /\ hattempt' = [hattempt EXCEPT ![p] = 0]
    /\ retry_delay' = [retry_delay EXCEPT ![p] = 0]
    /\ posts' = [posts EXCEPT ![p] = 0]

\* forward_webhook after publish() did not succeed (or without a queue):
\* the first POST of _forward_via_http is issued, or the call returns "none"
HttpFallback(p, event_payload, publish) ==
    IF forward_url
    THEN /\ ppc' = [ppc EXCEPT ![p] = "http"]
         /\ pub' = [pub EXCEPT ![p] = publish]
         /\ pev' = [pev EXCEPT ![p] = event_payload]
         /\ hattempt' = [hattempt EXCEPT ![p] = 1]
         /\ retry_delay' = [retry_delay EXCEPT ![p] = 0]
         /\ posts' = [posts EXCEPT ![p] = 1]
         /\ fres' = NoResult
         /\ pmsg' = [pmsg EXCEPT ![p] = NoMessage]
    ELSE Return(p, Result(FALSE, "none", 0, publish))

\* forward_webhook up to its first suspension point; with a queue attached
\* this is publish() up to the LPUSH it awaits
ForwardWebhook(p, event_payload) ==
    /\ ppc[p] = "idle"
    /\ calls < MaxCalls
    /\ calls' = calls + 1
    /\ IF ~(forward_url \/ redis_queue)
       THEN /\ Return(p, Result(FALSE, "none", 0, "none"))
            /\ UNCHANGED circuit_breaker
       ELSE IF redis_queue
       THEN LET r == should_attempt_redis(circuit_breaker, now) IN
            /\ circuit_breaker' = r.cb
            /\ IF r.ret
               THEN /\ pev' = [pev EXCEPT ![p] = event_payload]
                    /\ pmsg' = [pmsg EXCEPT ![p] = Message(event_payload, now)]
                    /\ ppc' = [ppc EXCEPT ![p] = "lpush"]
                    /\ pub' = [pub EXCEPT ![p] = "pending"]
                    /\ fres' = NoResult
                    /\ UNCHANGED <<hattempt, retry_delay, posts>>
               ELSE HttpFallback(p, event_payload, "fallback")
       ELSE /\ HttpFallback(p, event_payload, "none")
            /\ UNCHANGED circuit_breaker
    /\ UNCHANGED <<now, main, stats, forward_url, redis_queue, consecutive>>
    /\ UNCHANGED notProducerVars

\* publish(): the LPUSH to the main list completes
LpushOk(p) ==
    /\ ppc[p] = "lpush"
    /\ main' = <<pmsg[p]>> \o main
    /\ ppc' = [ppc EXCEPT ![p] = "hincrby"]
    /\ fres' = NoResult
    /\ UNCHANGED <<now, circuit_breaker, stats, forward_url, redis_queue, pev,
                   pmsg, hattempt, retry_delay, calls, pub, posts,
                   consecutive>>
    /\ UNCHANGED notProducerVars

\* publish(): the LPUSH raises (connection error, timeout, other)
LpushFail(p) ==
    /\ ppc[p] = "lpush"
    /\ circuit_breaker' = record_failure(circuit_breaker, now)
    /\ consecutive' = consecutive + 1
    /\ HttpFallback(p, pev[p], "fallback")
    /\ UNCHANGED <<now, main, stats, forward_url, redis_queue, calls>>
    /\ UNCHANGED notProducerVars

\* variant: forward_webhook falls through to HTTP after a successful publish
HincrbyReplyFallThrough(p, ok) ==
    /\ ppc[p] = "hincrby"
    /\ stats' = IF ok THEN [stats EXCEPT !.total_enqueued = @ + 1] ELSE stats
    /\ circuit_breaker' = record_success(circuit_breaker)
    /\ consecutive' = 0
    /\ HttpFallback(p, pev[p], "success")
    /\ UNCHANGED <<now, main, forward_url, redis_queue, calls>>
    /\ UNCHANGED notProducerVars

\* publish(): _update_stats("total_enqueued") completes (ok) or fails and is
\* swallowed; publish records the success and forward_webhook returns
HincrbyReply(p, ok) ==
    /\ ppc[p] = "hincrby"
    /\ stats' = IF ok THEN [stats EXCEPT !.total_enqueued = @ + 1] ELSE stats
    /\ circuit_breaker' = record_success(circuit_breaker)
    /\ consecutive' = 0
    /\ Return(p, Result(TRUE, "redis", 1, "success"))
    /\ UNCHANGED <<now, main, forward_url, redis_queue, calls>>
    /\ UNCHANGED notProducerVars

\* how the POST of one attempt ends: a status class, httpx.TimeoutException,
\* httpx.ConnectError, or any other exception
HttpResponses == {"2xx", "4xx", "5xx", "timeout", "connect", "other"}

\* variant: client errors are retried as well
RetryableWith4xx(resp) == resp \in {"4xx", "5xx", "timeout", "connect"}

\* _forward_via_http: the outcomes of a POST that reach the retry logic
Retryable(resp) == resp \in {"5xx", "timeout", "connect"}

\* _forward_via_http: retry_delay after attempt a
RetryDelay(a) == 2 ^ (a - 1)

\* _forward_via_http: the POST of the current attempt completes
HttpReply(p, resp) ==
    /\ ppc[p] = "http"
    /\ IF resp = "2xx"
       THEN Return(p, Result(TRUE, "http_fallback", hattempt[p], pub[p]))
       ELSE IF ~Retryable(resp)
       THEN Return(p, Result(FALSE, "http_fallback", hattempt[p], pub[p]))
       ELSE IF hattempt[p] < MAX_RETRIES
       THEN /\ ppc' = [ppc EXCEPT ![p] = "http_sleep"]
            /\ retry_delay' = [retry_delay EXCEPT ![p] = RetryDelay(hattempt[p])]
            /\ fres' = NoResult
            /\ UNCHANGED <<pev, pmsg, hattempt, posts, pub>>
       ELSE Return(p, Result(FALSE, "http_fallback", MAX_RETRIES, pub[p]))
    /\ UNCHANGED <<now, circuit_breaker, main, stats, forward_url, redis_queue,
                   calls, consecutive>>
    /\ UNCHANGED notProducerVars

\* _forward_via_http: the backoff sleep ends and the next POST is issued
HttpRetry(p) ==
    /\ ppc[p] = "http_sleep"
    /\ hattempt' = [hattempt EXCEPT ![p] = @ + 1]
    /\ retry_delay' = [retry_delay EXCEPT ![p] = 0]
    /\ posts' = [posts EXCEPT ![p] = @ + 1]
    /\ ppc' = [ppc EXCEPT ![p] = "http"]
    /\ fres' = NoResult
    /\ UNCHANGED <<now, circuit_breaker, main, stats, forward_url, redis_queue,
                   pev, pmsg, calls, pub, consecutive>>
    /\ UNCHANGED notProducerVars

\* time passes
Tick(d) ==
    /\ now + d <= MaxTime
    /\ now' = now + d
    /\ fres' = NoResult
    /\ UNCHANGED <<circuit_breaker, main, stats, forward_url, redis_queue, ppc,
                   pev, pmsg, hattempt, retry_delay, calls, pub, posts,
                   consecutive>>
    /\ UNCHANGED notProducerVars

(***************************************************************************)
(* RedisWebhookConsumer: the worker pool                                   *)
(***************************************************************************)
\* _move_to_dead_letter: the message pushed to the dead letter list; it
\* carries payload and metadata only
dlq_message(payload, metadata, t, w) ==
    [id |-> NoId,
     payload |-> payload,
     metadata |-> [metadata EXCEPT !.moved_to_dlq_at = t, !.worker_id = w]]

\* variant: the last attempt is followed by a retry as well
HasNextAttemptLe(a, max_retries) == a <= max_retries

\* _process_with_retry: a failed attempt is followed by a sleep and a retry
HasNextAttempt(a, max_retries) == a < max_retries

\* _process_with_retry: wait_time = 2 ** attempt
Backoff(a) == 2 ^ a

\* the while condition of start(), evaluated after a loop iteration
LoopNext(w, running) == IF running[w] THEN "brpop" ELSE "done"

\* the locals of _process_message are dropped
DropMessage(w) ==
    /\ wmsg' = [wmsg EXCEPT ![w] = NoMessage]
    /\ attempt' = [attempt EXCEPT ![w] = 0]
    /\ wait_time' = [wait_time EXCEPT ![w] = 0]
    /\ wsuccess' = [wsuccess EXCEPT ![w] = FALSE]
    /\ invoked' = [invoked EXCEPT ![w] = 0]
    /\ dlq_pushes' = [dlq_pushes EXCEPT ![w] = 0]
    /\ last_outcome' = [last_outcome EXCEPT ![w] = "none"]
    /\ api_answer' = [api_answer EXCEPT ![w] = "none"]

\* _process_with_retry after the retry loop: _move_to_dead_letter builds the
\* dead letter message and awaits its LPUSH
MoveToDeadLetter(w, payload, metadata) ==
    /\ wmsg' = [wmsg EXCEPT ![w] = dlq_message(payload, metadata, now, w)]
    /\ wpc' = [wpc EXCEPT ![w] = "dlq_lpush"]

\* variant: only the status is looked at
BusinessRuleSkipStatusOnly(event_payload) ==
    event_payload.status \in IGNORE_STATUSES

\* process_webhook: the business rules under which it returns True before
\* its first await (fetch_order_details)
BusinessRuleSkip(event_payload) ==
    \/ event_payload.status \in IGNORE_STATUSES
    \/ event_payload.code \notin ORDER_EVENT_CODES

\* the task of worker w first runs: start() sets is_running and polls
WorkerStart(w) ==
    /\ wpc[w] = "created"
    /\ is_running' = [is_running EXCEPT ![w] = TRUE]
    /\ wpc' = [wpc EXCEPT ![w] = "brpop"]
    /\ UNCHANGED <<now, main, dead_letter, stats, producerVars, apiVars, replayVars>>
    /\ UNCHANGED <<wmsg, attempt, wait_time, wsuccess, invoked, dlq_pushes,
                   last_outcome, api_answer, stopping, stopped_at, processed>>

\* start(): BRPOP returns the oldest message; _process_message and
\* _process_with_retry run up to the first await: fetch_order_details
\* inside process_webhook (position "process"), or, when process_webhook
\* returns True under a business rule, _update_stats("total_processed")
Brpop(w) ==
    /\ wpc[w] = "brpop"
    /\ main # <<>>
    /\ LET message == main[Len(main)]
           metadata == message.metadata IN
       /\ main' = SubSeq(main, 1, Len(main) - 1)
       /\ attempt' = [attempt EXCEPT ![w] = metadata.retry_count]
       /\ IF metadata.retry_count > metadata.max_retries
          THEN /\ MoveToDeadLetter(w, message.payload, metadata)
               /\ invoked' = [invoked EXCEPT ![w] = 0]
               /\ UNCHANGED <<wsuccess, last_outcome, api_answer, processed>>
          ELSE IF BusinessRuleSkip(message.payload)
          THEN /\ wmsg' = [wmsg EXCEPT ![w] = message]
               /\ wpc' = [wpc EXCEPT ![w] = "hincrby"]
               /\ invoked' = [invoked EXCEPT ![w] = 1]
               /\ wsuccess' = [wsuccess EXCEPT ![w] = TRUE]
               /\ last_outcome' = [last_outcome EXCEPT ![w] = "true"]
               /\ processed' = processed \cup {message.payload.ordersn}
               /\ UNCHANGED api_answer
          ELSE /\ wmsg' = [wmsg EXCEPT ![w] = message]
               /\ wpc' = [wpc EXCEPT ![w] = "process"]
               /\ invoked' = [invoked EXCEPT ![w] = 1]
               /\ UNCHANGED <<wsuccess, last_outcome, api_answer, processed>>
    /\ rlog' = IF rpc = "idle" THEN rlog ELSE [rlog EXCEPT !.main_popped = TRUE]
    /\ UNCHANGED <<now, dead_letter, stats, producerVars, apiVars>>
    /\ UNCHANGED <<is_running, wait_time, dlq_pushes, stopping, stopped_at>>
    /\ UNCHANGED <<rpc, rmsg, retried, failed, rres, replays>>

\* start(): BRPOP times out on the empty list; the loop condition is checked
BrpopTimeout(w) ==
    /\ wpc[w] = "brpop"
    /\ main = <<>>
    /\ wpc' = [wpc EXCEPT ![w] = LoopNext(w, is_running)]
    /\ UNCHANGED <<now, main, dead_letter, stats, producerVars, apiVars, replayVars>>
    /\ UNCHANGED <<is_running, wmsg, attempt, wait_time, wsuccess, invoked,
                   dlq_pushes, last_outcome, api_answer, stopping, stopped_at, processed>>

\* start(): BRPOP raises; the loop sleeps one second
BrpopError(w) ==
    /\ wpc[w] = "brpop"
    /\ wpc' = [wpc EXCEPT ![w] = "error_sleep"]
    /\ UNCHANGED <<now, main, dead_letter, stats, producerVars, apiVars, replayVars>>
    /\ UNCHANGED <<is_running, wmsg, attempt, wait_time, wsuccess, invoked,
                   dlq_pushes, last_outcome, api_answer, stopping, stopped_at, processed>>

\* start(): the sleep after an error ends; the loop condition is checked
ErrorSleepDone(w) ==
    /\ wpc[w] = "error_sleep"
    /\ wpc' = [wpc EXCEPT ![w] = LoopNext(w, is_running)]
    /\ UNCHANGED <<now, main, dead_letter, stats, producerVars, apiVars, replayVars>>
    /\ UNCHANGED <<is_running, wmsg, attempt, wait_time, wsuccess, invoked,
                   dlq_pushes, last_outcome, api_answer, stopping, stopped_at, processed>>

ProcessOutcomes == {"true", "false", "raise"}

\* what _make_request got from the upstream API for the order: the order,
\* or a body with message == "error" or a non-empty error field
ApiAnswers == {"order", "error"}

\* process_webhook after fetch_order_details: on a domain error
\* _make_request raises, fetch_order_details returns None and
\* process_webhook returns False; with the order in hand the result is
\* that of the sink
OutcomesOf(answer) ==
    IF answer = "error" THEN {"false"} ELSE ProcessOutcomes

\* _process_with_retry: process_webhook, having called fetch_order_details
\* (and the sink after it), returns true or false, or raises
ProcessWebhookEnds(w, answer, outcome) ==
    /\ wpc[w] = "process"
    /\ outcome \in OutcomesOf(answer)
    /\ api_answer' = [api_answer EXCEPT ![w] = answer]
    /\ last_outcome' = [last_outcome EXCEPT ![w] = outcome]
    /\ IF outcome = "true"
       THEN /\ wsuccess' = [wsuccess EXCEPT ![w] = TRUE]
            /\ wpc' = [wpc EXCEPT ![w] = "hincrby"]
            /\ processed' = processed \cup {wmsg[w].payload.ordersn}
            /\ UNCHANGED <<wmsg, wait_time>>
       ELSE IF HasNextAttempt(attempt[w], wmsg[w].metadata.max_retries)
       THEN /\ wait_time' = [wait_time EXCEPT ![w] = Backoff(attempt[w])]
            /\ wpc' = [wpc EXCEPT ![w] = "sleep"]
            /\ UNCHANGED <<wmsg, wsuccess, processed>>
       ELSE /\ MoveToDeadLetter(w, wmsg[w].payload, wmsg[w].metadata)
            /\ UNCHANGED <<wait_time, wsuccess, processed>>
    /\ UNCHANGED <<now, main, dead_letter, stats, producerVars, apiVars, replayVars>>
    /\ UNCHANGED <<is_running, attempt, invoked, dlq_pushes, stopping,
                   stopped_at>>

\* _process_with_retry: the backoff sleep ends; the next attempt starts
BackoffDone(w) ==
    /\ wpc[w] = "sleep"
    /\ attempt' = [attempt EXCEPT ![w] = @ + 1]
    /\ invoked' = [invoked EXCEPT ![w] = @ + 1]
    /\ wpc' = [wpc EXCEPT ![w] = "process"]
    /\ UNCHANGED <<now, main, dead_letter, stats, producerVars, apiVars, replayVars>>
    /\ UNCHANGED <<is_running, wmsg, wait_time, wsuccess, dlq_pushes,
                   last_outcome, api_answer, stopping, stopped_at, processed>>

\* _move_to_dead_letter: the LPUSH completes, or raises and is swallowed;
\* _process_with_retry returns False and _process_message awaits
\* _update_stats("total_failed")
DlqLpushEnds(w, ok) ==
    /\ wpc[w] = "dlq_lpush"
    /\ IF ok
       THEN /\ dead_letter' = <<wmsg[w]>> \o dead_letter
            /\ dlq_pushes' = [dlq_pushes EXCEPT ![w] = @ + 1]
            /\ rlog' = IF rpc = "idle" THEN rlog
                     ELSE [rlog EXCEPT !.dlq_written = TRUE]
       ELSE UNCHANGED <<dead_letter, dlq_pushes, rlog>>
    /\ wsuccess' = [wsuccess EXCEPT ![w] = FALSE]
    /\ wpc' = [wpc EXCEPT ![w] = "hincrby"]
    /\ UNCHANGED <<now, main, stats, producerVars, apiVars>>
    /\ UNCHANGED <<is_running, wmsg, attempt, wait_time, invoked,
                   last_outcome, api_answer, stopping, stopped_at, processed>>
    /\ UNCHANGED <<rpc, rmsg, retried, failed, rres, replays>>

\* _update_stats: the HINCRBY completes, or raises and is swallowed;
\* _process_message returns and the loop condition is checked
UpdateStatsEnds(w, ok) ==
    /\ wpc[w] = "hincrby"
    /\ stats' = IF ~ok THEN stats
                ELSE IF wsuccess[w]
                THEN [stats EXCEPT !.total_processed = @ + 1]
                ELSE [stats EXCEPT !.total_failed = @ + 1]
    /\ wpc' = [wpc EXCEPT ![w] = LoopNext(w, is_running)]
    /\ DropMessage(w)
    /\ UNCHANGED <<now, main, dead_letter, producerVars, apiVars, replayVars>>
    /\ UNCHANGED <<is_running, stopping, stopped_at, processed>>

\* a task that has not returned
Running(w) == wpc[w] \notin {"done", "cancelled"}

\* stop_consumer_workers: stop() of every consumer, then the wait begins
StopConsumerWorkers ==
    /\ stopping = "none"
    /\ is_running' = [w \in Workers |-> FALSE]
    /\ stopping' = "waiting"
    /\ stopped_at' = now
    /\ UNCHANGED <<now, main, dead_letter, stats, producerVars, apiVars, replayVars>>
    /\ UNCHANGED <<wpc, wmsg, attempt, wait_time, wsuccess, invoked,
                   dlq_pushes, last_outcome, api_answer, processed>>

\* stop_consumer_workers: every task returned within the grace period
StopGraceful ==
    /\ stopping = "waiting"
    /\ \A w \in Workers : ~Running(w)
    /\ stopping' = "stopped"
    /\ UNCHANGED <<now, main, dead_letter, stats, producerVars, apiVars, replayVars>>
    /\ UNCHANGED <<is_running, wpc, wmsg, attempt, wait_time, wsuccess,
                   invoked, dlq_pushes, last_outcome, api_answer, stopped_at, processed>>

\* stop_consumer_workers: the grace period ran out; the tasks that have not
\* returned are cancelled, CancelledError ends start() at its current await
StopTimeout ==
    /\ stopping = "waiting"
    /\ now - stopped_at >= StopGrace
    /\ \E w \in Workers : Running(w)
    /\ stopping' = "stopped"
    /\ wpc' = [w \in Workers |-> IF Running(w) THEN "cancelled" ELSE wpc[w]]
    /\ wmsg' = [w \in Workers |-> IF Running(w) THEN NoMessage ELSE wmsg[w]]
    /\ attempt' = [w \in Workers |-> 0]
    /\ wait_time' = [w \in Workers |-> 0]
    /\ wsuccess' = [w \in Workers |-> FALSE]
    /\ invoked' = [w \in Workers |-> 0]
    /\ dlq_pushes' = [w \in Workers |-> 0]
    /\ last_outcome' = [w \in Workers |-> "none"]
    /\ api_answer' = [w \in Workers |-> "none"]
    /\ UNCHANGED <<now, main, dead_letter, stats, producerVars, apiVars, replayVars>>
    /\ UNCHANGED <<is_running, stopped_at, processed>>

(***************************************************************************)
(* Dashboard: retry_dlq_messages (replay_all)                              *)
(***************************************************************************)
NoReplayLog == [start |-> Absent, popped |-> NoMessage, pushed |-> <<>>,
                dlq_written |-> FALSE, main_popped |-> FALSE]

NoReplayResult == [returned |-> FALSE, success |-> FALSE, retried_count |-> 0,
                   failed_count |-> 0]

\* variant: the worker_id key is left in the metadata
ResetMetadataKeepWorker(msg, t) ==
    [msg EXCEPT !.metadata.retry_count = 0,
                !.metadata.enqueued_at = t,
                !.metadata.moved_to_dlq_at = Absent]

\* retry_dlq_messages: reset metadata for retry
ResetMetadata(msg, t) ==
    [msg EXCEPT !.metadata.retry_count = 0,
                !.metadata.enqueued_at = t,
                !.metadata.moved_to_dlq_at = Absent,
                !.metadata.worker_id = Absent]

\* retry_dlq_messages returns its response; its locals are dropped
ReplayReturn(ok, n_retried, n_failed) ==
    /\ rres' = [returned |-> TRUE, success |-> ok, retried_count |-> n_retried,
                failed_count |-> n_failed]
    /\ rpc' = "idle"
    /\ rmsg' = NoMessage
    /\ retried' = 0
    /\ failed' = 0

\* a request arrives; the handler runs up to the LLEN it awaits
RetryDlqMessages ==
    /\ rpc = "idle"
    /\ replays < Cardinality(ReplayRequests)
    /\ replays' = replays + 1
    /\ rpc' = "llen"
    /\ rlog' = [NoReplayLog EXCEPT !.start = now]
    /\ rres' = NoReplayResult
    /\ UNCHANGED <<rmsg, retried, failed>>
    /\ UNCHANGED <<now, main, dead_letter, stats, producerVars, apiVars, workerVars>>

\* LLEN completes or raises
LlenEnds(ok) ==
    /\ rpc = "llen"
    /\ IF ~ok
       THEN ReplayReturn(FALSE, 0, 0)
       ELSE IF Len(dead_letter) = 0
       THEN ReplayReturn(TRUE, 0, 0)
       ELSE /\ rpc' = "rpop"
            /\ UNCHANGED <<rmsg, retried, failed, rres>>
    /\ UNCHANGED <<rlog, replays>>
    /\ UNCHANGED <<now, main, dead_letter, stats, producerVars, apiVars, workerVars>>

\* RPOP completes or raises; an entry is reset and its LPUSH awaited, or the
\* list is empty and the handler returns
RpopEnds(ok) ==
    /\ rpc = "rpop"
    /\ (ok /\ dead_letter # <<>>) => retried + failed < MaxMoves
    /\ IF ~ok
       THEN /\ ReplayReturn(FALSE, 0, 0)
            /\ UNCHANGED <<dead_letter, rlog>>
       ELSE IF dead_letter = <<>>
       THEN /\ ReplayReturn(TRUE, retried, failed)
            /\ UNCHANGED <<dead_letter, rlog>>
       ELSE LET msg == dead_letter[Len(dead_letter)] IN
            /\ dead_letter' = SubSeq(dead_letter, 1, Len(dead_letter) - 1)
            /\ rmsg' = ResetMetadata(msg, now)
            /\ rlog' = [rlog EXCEPT !.popped = msg]
            /\ rpc' = "lpush"
            /\ UNCHANGED <<retried, failed, rres>>
    /\ UNCHANGED replays
    /\ UNCHANGED <<now, main, stats, producerVars, apiVars, workerVars>>

\* the LPUSH to the main list completes, or raises and is counted as failed
ReplayLpushEnds(ok) ==
    /\ rpc = "lpush"
    /\ IF ok
       THEN /\ main' = <<rmsg>> \o main
            /\ retried' = retried + 1
            /\ rlog' = [rlog EXCEPT
                          !.pushed = Append(@, [from |-> rlog.popped, to |-> rmsg]),
                          !.popped = NoMessage]
            /\ UNCHANGED failed
       ELSE /\ failed' = failed + 1
            /\ rlog' = [rlog EXCEPT !.popped = NoMessage]
            /\ UNCHANGED <<main, retried>>
    /\ rpc' = "rpop"
    /\ rmsg' = NoMessage
    /\ UNCHANGED <<rres, replays>>
    /\ UNCHANGED <<now, dead_letter, stats, producerVars, apiVars, workerVars>>

(***************************************************************************)
(* Receiver: the webhook endpoint POST /webhook/shopee                     *)
(***************************************************************************)
\* request bodies: bytes that are not UTF-8, whitespace only, text that is
\* not JSON, a JSON object, a JSON value that is not an object
Bodies == {"undecodable", "blank", "text", "json_object", "json_array"}

\* Authorization header: absent, not the HMAC of the body, the HMAC of the
\* body under a configured key
Authorizations == {"missing", "wrong", "signed"}

\* raw_body.decode("utf-8") succeeds
Decodes(body) == body # "undecodable"

\* verify_push_signature
verify_push_signature(body, authorization, debug) ==
    /\ authorization # "missing"
    /\ (authorization = "signed" \/ debug)

\* validate_webhook_request: is_valid
validate_webhook_request(body, authorization, debug) ==
    /\ Decodes(body)
    /\ body # "blank"
    /\ verify_push_signature(body, authorization, debug)

\* json.loads: the type of the value, or the error it raises
json_loads(body) ==
    IF body = "json_object" THEN "dict"
    ELSE IF body = "json_array" THEN "list"
    ELSE "error"

\* variant: the task is added before the payload is used as a dict
AddsTaskAnyJson(body, authorization, debug) ==
    /\ Decodes(body)
    /\ validate_webhook_request(body, authorization, debug)
    /\ json_loads(body) # "error"

\* shopee_api: background_tasks.add_task is reached; event_payload.get in
\* the log line before it raises for a value that is not a dict
AddsTask(body, authorization, debug) ==
    /\ Decodes(body)
    /\ validate_webhook_request(body, authorization, debug)
    /\ json_loads(body) = "dict"

NoResponse == [sent |-> FALSE, status_code |-> 0, content |-> "",
               body |-> "blank", authorization |-> "missing",
               scheduled |-> FALSE]

notReceiverVars == <<now, main, dead_letter, stats, producerVars, workerVars,
                     replayVars, syncVars, tokenVars, serviceVars>>

\* shopee_api: one request, from reading the body to the response
ShopeeApi(body, authorization) ==
    /\ received < MaxRequests
    /\ received' = received + 1
    /\ LET scheduled == AddsTask(body, authorization, debug_webhook) IN
       /\ background_tasks' = background_tasks + (IF scheduled THEN 1 ELSE 0)
       /\ response' = [sent |-> TRUE, status_code |-> 200, content |-> "",
                       body |-> body, authorization |-> authorization,
                       scheduled |-> scheduled]
    /\ UNCHANGED <<debug_webhook, downstream_up, completed>>
    /\ UNCHANGED notReceiverVars

\* _process_webhook_background: a scheduled task runs after the response;
\* its errors are logged
ProcessWebhookBackground ==
    /\ background_tasks > 0
    /\ background_tasks' = background_tasks - 1
    /\ completed' = IF downstream_up
                    THEN [completed EXCEPT !.ok = @ + 1]
                    ELSE [completed EXCEPT !.failed = @ + 1]
    /\ UNCHANGED <<debug_webhook, downstream_up, received, response>>
    /\ UNCHANGED notReceiverVars

\* Redis, the upstream API and the chat API become unavailable or available
DownstreamChanges ==
    /\ downstream_up' = ~downstream_up
    /\ UNCHANGED <<debug_webhook, received, response, background_tasks,
                   completed>>
    /\ UNCHANGED notReceiverVars

\* the events Shopee pushes: order events (code 3) and others (code 5)
RawEvents == [code : {3, 5}, ordersn : OrderSns, status : {"READY_TO_SHIP"}]

\* the background task whose fan-out is followed
BackgroundTask == CHOOSE p \in Callers : TRUE

\* handle_webhook_event with a forwarder: after the order lookup and the
\* notification it attaches the queue if Redis is enabled and calls
\* forward_webhook with the event, whatever its code
HandleWebhookEvent(p, event_payload) ==
    /\ forward_url
    /\ ForwardWebhook(p, event_payload)

(***************************************************************************)
(* ReconciliationService: the sync lock                                    *)
(***************************************************************************)
\* the callers of sync_orders_in_range, by sync_type; the startup sync takes
\* the path of the scheduled one
Syncs == {"scheduled", "daily", "manual"}

NoLock == [held |-> FALSE, expires_at |-> Absent, owner |-> ""]

\* the key shopee:reconciliation:sync_in_progress exists
LockExists == sync_lock.held /\ now < sync_lock.expires_at

notSyncVars == <<main, dead_letter, stats, producerVars, workerVars,
                 replayVars, receiverVars, tokenVars, serviceVars>>

\* the history keeps the entries 0..9
HISTORY_LENGTH == 10

\* SyncResult: the fields _record_sync_result reads
SyncResult(s, success, completed_at) ==
    [sync_type |-> s, success |-> success, completed_at |-> completed_at]

NoSyncResult == SyncResult("", FALSE, Absent)

\* LPUSH: the entry becomes the head of the list
Lpush(list, entry) == <<entry>> \o list

\* LTRIM list 0 stop
Ltrim(list, stop) ==
    SubSeq(list, 1, IF Len(list) < stop + 1 THEN Len(list) ELSE stop + 1)

\* sync_orders_in_range is called and awaits the SET NX EX
SyncStart(s) ==
    /\ spc[s] = "idle"
    /\ spc' = [spc EXCEPT ![s] = "acquire"]
    /\ UNCHANGED <<now, sync_lock>>
    /\ UNCHANGED syncStore
    /\ UNCHANGED notSyncVars

\* _acquire_sync_lock: SET NX EX completes; the holder starts to fetch, any
\* other call returns the skipped result, which is not recorded
AcquireEnds(s) ==
    /\ spc[s] = "acquire"
    /\ IF LockExists
       THEN /\ spc' = [spc EXCEPT ![s] = "skipped"]
            /\ UNCHANGED sync_lock
       ELSE /\ sync_lock' = [held |-> TRUE,
                             expires_at |-> now + SYNC_TIMEOUT_SECONDS,
                             owner |-> s]
            /\ spc' = [spc EXCEPT ![s] = "fetch"]
    /\ UNCHANGED now
    /\ UNCHANGED syncStore
    /\ UNCHANGED notSyncVars

\* the fetch and upsert of the orders ends, with or without an exception;
\* the SyncResult is built with completed_at = time.time() and
\* _record_sync_result awaits its LPUSH
FetchUpsertEnds(s, ok) ==
    /\ spc[s] = "fetch"
    /\ sync_result' = [sync_result EXCEPT ![s] = SyncResult(s, ok, now)]
    /\ spc' = [spc EXCEPT ![s] = "lpush"]
    /\ UNCHANGED <<now, sync_lock, sync_history, last_sync_timestamp,
                   last_full_sync_timestamp, recorded>>
    /\ UNCHANGED notSyncVars

\* _record_sync_result: the LPUSH ends and the LTRIM is awaited
LpushEnds(s) ==
    /\ spc[s] = "lpush"
    /\ sync_history' = Lpush(sync_history, sync_result[s])
    /\ recorded' = <<sync_result[s]>> \o recorded
    /\ spc' = [spc EXCEPT ![s] = "ltrim"]
    /\ UNCHANGED <<now, sync_lock, sync_result, last_sync_timestamp,
                   last_full_sync_timestamp>>
    /\ UNCHANGED notSyncVars

\* variant: every result updates the timestamp
UpdatesLastSyncAlways(result) == TRUE

\* if result.success
UpdatesLastSync(result) == result.success

\* _record_sync_result: the LTRIM ends; a successful result awaits the SET
\* of last_sync_timestamp, any other result is recorded and the finally
\* block awaits _release_sync_lock
LtrimEnds(s) ==
    /\ spc[s] = "ltrim"
    /\ sync_history' = Ltrim(sync_history, HISTORY_LENGTH - 1)
    /\ spc' = [spc EXCEPT ![s] = IF UpdatesLastSync(sync_result[s])
                                 THEN "set_last" ELSE "release"]
    /\ UNCHANGED <<now, sync_lock, sync_result, last_sync_timestamp,
                   last_full_sync_timestamp, recorded>>
    /\ UNCHANGED notSyncVars

\* _record_sync_result: the SET of last_sync_timestamp ends; a daily sync
\* awaits the SET of last_full_sync_timestamp
SetLastSyncEnds(s) ==
    /\ spc[s] = "set_last"
    /\ last_sync_timestamp' = sync_result[s].completed_at
    /\ spc' = [spc EXCEPT ![s] = IF sync_result[s].sync_type = "daily"
                                 THEN "set_full" ELSE "release"]
    /\ UNCHANGED <<now, sync_lock, sync_history, sync_result,
                   last_full_sync_timestamp, recorded>>
    /\ UNCHANGED notSyncVars

\* _record_sync_result: the SET of last_full_sync_timestamp ends
SetLastFullSyncEnds(s) ==
    /\ spc[s] = "set_full"
    /\ last_full_sync_timestamp' = sync_result[s].completed_at
    /\ spc' = [spc EXCEPT ![s] = "release"]
    /\ UNCHANGED <<now, sync_lock, sync_history, sync_result,
                   last_sync_timestamp, recorded>>
    /\ UNCHANGED notSyncVars

\* _release_sync_lock: DEL of the key; sync_orders_in_range returns
ReleaseEnds(s) ==
    /\ spc[s] = "release"
    /\ sync_lock' = NoLock
    /\ spc' = [spc EXCEPT ![s] = "done"]
    /\ sync_result' = [sync_result EXCEPT ![s] = NoSyncResult]
    /\ UNCHANGED <<now, sync_history, last_sync_timestamp,
                   last_full_sync_timestamp, recorded>>
    /\ UNCHANGED notSyncVars

\* a long time passes
LongTick(d) ==
    /\ now + d <= MaxSyncTime
    /\ now' = now + d
    /\ UNCHANGED <<sync_lock, spc>>
    /\ UNCHANGED syncStore
    /\ UNCHANGED notSyncVars

(***************************************************************************)
(* ReconciliationService.sync_orders_in_range: the loop over the orders    *)
(***************************************************************************)
\* how one order of the list fares: its status is in IGNORE_STATUSES;
\* fetch_order_details returns None; the order has no items; the upsert
\* returns True; the upsert returns False; the fetch or the upsert raises
OrderOutcomes == {"ignored", "fetch_none", "no_items", "upserted",
                  "upsert_false", "raised"}

OrderLists == UNION {[1..n -> OrderOutcomes] : n \in 0..MaxOrders}

NoLoop == [orders_processed |-> Absent, orders_skipped |-> Absent,
           errors |-> Absent, success |-> FALSE]

\* the variables a sync leaves alone, but for its orders and counters
notLoopVars == <<main, dead_letter, stats, producerVars, workerVars,
                 replayVars, receiverVars, tokenVars, notifierVars,
                 orderVars, sheetVars, signatureVars, configVars,
                 fanoutVars, lifecycleVars, splitVars, catchupVars>>

\* number of the orders of the list with an outcome in the set
CountOf(outcomes, set) ==
    Cardinality({i \in 1..Len(outcomes) : outcomes[i] \in set})

\* the outcomes for which the loop appends to errors
ErrorOutcomes == {"upsert_false", "raised"}

\* the counters after the loop and success = len(errors) == 0 or
\* orders_processed > 0; errors is the length of the list
LoopResult(outcomes) ==
    LET orders_processed == CountOf(outcomes, {"upserted"})
        errors == CountOf(outcomes, ErrorOutcomes)
    IN  [orders_processed |-> orders_processed,
         orders_skipped |-> CountOf(outcomes, {"ignored"}),
         errors |-> errors,
         success |-> (errors = 0 \/ orders_processed > 0)]

\* one sync_orders_in_range call that runs alone, from the lock to its
\* release: the orders are processed, the SyncResult is recorded
SyncOrdersInRange(s, outcomes) ==
    /\ loop_result = NoLoop
    /\ \A other \in Syncs : spc[other] = "idle"
    /\ ~LockExists
    /\ LET result == SyncResult(s, LoopResult(outcomes).success, now) IN
       /\ sync_orders' = outcomes
       /\ loop_result' = LoopResult(outcomes)
       /\ sync_history' = Ltrim(Lpush(sync_history, result), HISTORY_LENGTH - 1)
       /\ recorded' = <<result>> \o recorded
       /\ last_sync_timestamp' =
             IF UpdatesLastSync(result) THEN result.completed_at
             ELSE last_sync_timestamp
       /\ last_full_sync_timestamp' =
             IF UpdatesLastSync(result) /\ s = "daily" THEN result.completed_at
             ELSE last_full_sync_timestamp
    /\ spc' = [spc EXCEPT ![s] = "done"]
    /\ UNCHANGED <<now, sync_lock, sync_result>>
    /\ UNCHANGED notLoopVars

(***************************************************************************)
(* ReconciliationService.startup_catchup_sync                              *)
(***************************************************************************)
\* constants.HISTORICAL_DAYS
HISTORICAL_DAYS == 7

\* the time of the first startup: HISTORICAL_DAYS after the epoch
FirstStartup == HISTORICAL_DAYS * 24 * 60 * 60

\* seconds that pass in one step while the worker runs or is down
CatchupSteps == {1, 2}

\* the variables a catch-up sync leaves alone
notCatchupVars == <<main, dead_letter, stats, producerVars, workerVars,
                    replayVars, receiverVars, tokenVars, notifierVars,
                    orderVars, sheetVars, signatureVars, configVars,
                    fanoutVars, lifecycleVars, splitVars, loopVars>>

\* the worker starts: startup_catchup_sync reads last_sync_timestamp and
\* the clock, chooses the window and calls sync_orders_in_range, which
\* takes the lock; a clock in whole seconds makes int(float(last_sync))
\* the value itself
StartupCatchupSync ==
    /\ cpc = "idle"
    /\ startups < MaxStartups
    /\ ~LockExists
    /\ startups' = startups + 1
    /\ time_from' = IF last_sync_timestamp # Absent THEN last_sync_timestamp
                    ELSE now - (HISTORICAL_DAYS * 24 * 60 * 60)
    /\ time_to' = now
    /\ sync_lock' = [held |-> TRUE, expires_at |-> now + SYNC_TIMEOUT_SECONDS,
                     owner |-> "scheduled"]
    /\ cpc' = "sync"
    /\ UNCHANGED <<now, spc, sync_result, written_to>>
    /\ UNCHANGED syncStore
    /\ UNCHANGED notCatchupVars

\* time passes, during the sync or between two runs of the worker
CatchupTick(d) ==
    /\ now + d <= FirstStartup + MaxElapsed
    /\ now' = now + d
    /\ UNCHANGED <<sync_lock, spc>>
    /\ UNCHANGED syncStore
    /\ UNCHANGED catchupVars
    /\ UNCHANGED notCatchupVars

\* sync_orders_in_range ends: the SyncResult gets completed_at =
\* time.time() and is recorded, a successful one as last_sync_timestamp;
\* the lock is released
CatchupSyncEnds(ok) ==
    /\ cpc = "sync"
    /\ LET result == SyncResult("scheduled", ok, now) IN
       /\ sync_history' = Ltrim(Lpush(sync_history, result), HISTORY_LENGTH - 1)
       /\ recorded' = <<result>> \o recorded
       /\ last_sync_timestamp' =
             IF UpdatesLastSync(result) THEN result.completed_at
             ELSE last_sync_timestamp
       /\ written_to' = IF UpdatesLastSync(result) THEN time_to ELSE written_to
    /\ sync_lock' = NoLock
    /\ cpc' = "idle"
    /\ UNCHANGED <<now, spc, sync_result, last_full_sync_timestamp>>
    /\ UNCHANGED <<time_from, time_to, startups>>
    /\ UNCHANGED notCatchupVars

(***************************************************************************)
(* ShopeeAPIClient: access token refresh                                   *)
(***************************************************************************)
\* the concurrent _make_request calls (fetch_order_details gathers two)
Requests == {"order_detail", "escrow_detail"}

\* is_token_expired: five minute buffer
is_token_expired(access_token_expires_at, t) ==
    t >= access_token_expires_at - 300

notTokenVars == <<now, main, dead_letter, stats, producerVars, workerVars,
                  replayVars, receiverVars, syncVars, serviceVars>>

\* the client instance of the OrderService, which gathers two requests
OrderServiceClient == 1

\* _generate_signature and query_params: the token a request of client
\* instance c is signed and sent with
SigningToken(c) == self_access_token[c]

\* ShopeeAPIClient.__init__ with tokens in storage: the instance keeps the
\* stored access token
CreateClient(c) ==
    /\ self_access_token[c] = Absent
    /\ self_access_token' = [self_access_token EXCEPT ![c] = tokens.access_token]
    /\ UNCHANGED <<tokens, tpc, api_calls, refresh_posts, owner, used_token>>
    /\ UNCHANGED notTokenVars

\* _make_request of client instance c up to its first await:
\* ensure_valid_token loads the tokens and either awaits the refresh POST
\* or the request is signed and its GET is sent
ClientMakesRequest(c, r) ==
    /\ tpc[r] = "idle"
    /\ self_access_token[c] # Absent
    /\ api_calls < MaxApiCalls
    /\ api_calls' = api_calls + 1
    /\ owner' = [owner EXCEPT ![r] = c]
    /\ IF is_token_expired(tokens.access_token_expires_at, now)
       THEN /\ tpc' = [tpc EXCEPT ![r] = "refresh"]
            /\ refresh_posts' = refresh_posts + 1
            /\ UNCHANGED used_token
       ELSE /\ tpc' = [tpc EXCEPT ![r] = "get"]
            /\ used_token' = [used_token EXCEPT ![r] = SigningToken(c)]
            /\ UNCHANGED refresh_posts
    /\ UNCHANGED <<tokens, self_access_token>>
    /\ UNCHANGED notTokenVars

\* a request of the OrderService
MakeRequest(r) == ClientMakesRequest(OrderServiceClient, r)

\* refresh_access_token: the POST completes; new tokens are saved, or the
\* refresh failed and _make_request raises
RefreshEnds(r, ok, expire_in) ==
    /\ tpc[r] = "refresh"
    /\ IF ok
       THEN /\ tokens' = [access_token |-> tokens.access_token + 1,
                          refresh_token |-> tokens.refresh_token + 1,
                          access_token_expires_at |-> now + expire_in]
            /\ self_access_token' =
                  [self_access_token EXCEPT ![owner[r]] = tokens.access_token + 1]
            /\ used_token' = [used_token EXCEPT ![r] = self_access_token'[owner[r]]]
            /\ tpc' = [tpc EXCEPT ![r] = "get"]
       ELSE /\ tpc' = [tpc EXCEPT ![r] = "idle"]
            /\ UNCHANGED <<tokens, self_access_token, used_token>>
    /\ UNCHANGED <<api_calls, refresh_posts, owner>>
    /\ UNCHANGED notTokenVars

\* _make_request: the GET completes or raises
GetEnds(r) ==
    /\ tpc[r] = "get"
    /\ tpc' = [tpc EXCEPT ![r] = "idle"]
    /\ used_token' = [used_token EXCEPT ![r] = Absent]
    /\ UNCHANGED <<tokens, api_calls, refresh_posts, self_access_token, owner>>
    /\ UNCHANGED notTokenVars

(***************************************************************************)
(* TelegramMessageQueue: the rate-limited notifier queue                   *)
(***************************************************************************)
\* TelegramMessageQueue.__init__: seconds_per_message = 60.0 / 15
seconds_per_message == 60 \div DEFAULT_MESSAGES_PER_MINUTE

NoItem == 0
NotStopped == [stopped |-> FALSE, ids |-> {}, total_queued |-> 0]
NoWindow == [since |-> Absent, count |-> 0]

notNotifierVars == <<main, dead_letter, stats, producerVars, workerVars,
                     replayVars, receiverVars, syncVars, tokenVars, orderVars,
                     sheetVars, signatureVars, configVars,
                  fanoutVars, lifecycleVars, splitVars, loopVars, catchupVars>>

\* variant: the newest message is taken
GetNewest(q) == [item |-> q[Len(q)], rest |-> SubSeq(q, 1, Len(q) - 1)]

\* asyncio.Queue.get: the oldest message
Get(q) == [item |-> Head(q), rest |-> Tail(q)]

\* variant: the consumer never waits
RateWaitNone(t, last) == 0

\* _process_queue: the wait that respects the rate limit
RateWait(t, last) ==
    IF t - last < seconds_per_message
    THEN seconds_per_message - (t - last)
    ELSE 0

\* an observed 60 s window: opened at this delivery start, or counting it
Observe(w, t, open) ==
    IF open /\ w.since = Absent THEN [since |-> t, count |-> 1]
    ELSE IF w.since # Absent /\ t < w.since + 60
    THEN [w EXCEPT !.count = @ + 1]
    ELSE w

\* _process_queue reaches _send_with_retry for message m: the first attempt
StartDelivery(m, open) ==
    /\ started' = Append(started, m)
    /\ window' = Observe(window, now, open)

\* _send_direct: True when every POST got status 200; a 4xx or 5xx status
\* or a timeout of requests.post makes it return False
send_direct(outcome) == outcome = "sent"

\* _send_with_retry: attempt a for message m; the blocking _send_direct
\* takes dur seconds and returns True ("sent"), or returns False or raises
\* (any other outcome); after the last attempt _process_queue sets
\* last_send_time
SendAttempt(m, a, outcome, dur) ==
    /\ now + dur <= MaxClock
    /\ now' = now + dur
    /\ IF ~send_direct(outcome) /\ a < TELEGRAM_MAX_RETRIES - 1
       THEN /\ worker_task' = "retry_sleep"
            /\ wake_at' = now + dur + 2 ^ a
            /\ message_item' = m
            /\ qattempt' = a
            /\ send_response' = outcome
            /\ UNCHANGED <<qstats, finished, last_send_time>>
       ELSE /\ worker_task' = "get"
            /\ wake_at' = 0
            /\ message_item' = NoItem
            /\ qattempt' = 0
            /\ send_response' = "none"
            /\ last_send_time' = now + dur
            /\ finished' = finished \cup {m}
            /\ qstats' = IF outcome = "sent"
                         THEN [qstats EXCEPT !.total_sent = @ + 1]
                         ELSE [qstats EXCEPT !.total_failed = @ + 1]

SendOutcomes == {"sent", "failed"}

\* the outcomes of _send_direct by what the chat API answered
DeliveryOutcomes == {"sent", "4xx", "5xx", "timeout"}

\* start(): the worker task is created and awaits queue.get()
StartQueueWorker ==
    /\ ~q_is_running
    /\ stop_pc = "none"
    /\ q_is_running' = TRUE
    /\ worker_task' = "get"
    /\ UNCHANGED <<now, queue, last_send_time, message_item, qattempt, send_response, wake_at,
                   qstats, pending, events_sent, started, finished,
                   stop_pc, drain_since, drain_timed_out, at_stop, window>>
    /\ UNCHANGED notNotifierVars

\* send_event: a task running add_message is created
SendEvent ==
    /\ events_sent < MaxMessages
    /\ events_sent' = events_sent + 1
    /\ pending' = Append(pending, events_sent + 1)
    /\ UNCHANGED <<now, queue, last_send_time, q_is_running, worker_task,
                   message_item, qattempt, send_response, wake_at, qstats, started, finished, stop_pc, drain_since, drain_timed_out, at_stop,
                   window>>
    /\ UNCHANGED notNotifierVars

\* add_message: the oldest task runs; the put on the unbounded queue does
\* not suspend
AddMessage ==
    /\ pending # <<>>
    /\ queue' = Append(queue, Head(pending))
    /\ pending' = Tail(pending)
    /\ qstats' = [qstats EXCEPT !.total_queued = @ + 1]
    /\ UNCHANGED <<now, last_send_time, q_is_running, worker_task,
                   message_item, qattempt, send_response, wake_at, events_sent, started,
                   finished, stop_pc, drain_since, drain_timed_out,
                   at_stop, window>>
    /\ UNCHANGED notNotifierVars

\* _process_queue: queue.get() returns a message; the task sleeps for the
\* rate limit or makes the first send attempt at once
QueueGet(outcome, dur, open) ==
    /\ worker_task = "get"
    /\ queue # <<>>
    /\ queue' = Get(queue).rest
    /\ IF RateWait(now, last_send_time) > 0
       THEN /\ worker_task' = "rate_sleep"
            /\ wake_at' = now + RateWait(now, last_send_time)
            /\ message_item' = Get(queue).item
            /\ UNCHANGED <<now, last_send_time, qattempt, send_response, qstats, started,
                           finished, window>>
       ELSE /\ StartDelivery(Get(queue).item, open)
            /\ SendAttempt(Get(queue).item, 0, outcome, dur)
    /\ UNCHANGED <<q_is_running, pending, events_sent, stop_pc, drain_since,
                   drain_timed_out, at_stop>>
    /\ UNCHANGED notNotifierVars

\* _process_queue: the rate limit sleep ends; the first send attempt
RateSleepDone(outcome, dur, open) ==
    /\ worker_task = "rate_sleep"
    /\ now >= wake_at
    /\ StartDelivery(message_item, open)
    /\ SendAttempt(message_item, 0, outcome, dur)
    /\ UNCHANGED <<queue, q_is_running, pending, events_sent, stop_pc,
                   drain_since, drain_timed_out, at_stop>>
    /\ UNCHANGED notNotifierVars

\* _send_with_retry: the backoff sleep ends; the next attempt
RetrySleepDone(outcome, dur) ==
    /\ worker_task = "retry_sleep"
    /\ now >= wake_at
    /\ SendAttempt(message_item, qattempt + 1, outcome, dur)
    /\ UNCHANGED <<queue, q_is_running, pending, events_sent, started, stop_pc,
                   drain_since, drain_timed_out, at_stop, window>>
    /\ UNCHANGED notNotifierVars

\* the messages in the queue or in the hands of the worker task
InQueueOrDelivery ==
    {queue[i] : i \in 1..Len(queue)} \cup
    (IF message_item = NoItem THEN {} ELSE {message_item})

\* stop(): is_running is cleared, the worker task is cancelled and awaited
StopQueueWorker ==
    /\ q_is_running
    /\ stop_pc = "none"
    /\ q_is_running' = FALSE
    /\ stop_pc' = "await_worker"
    /\ at_stop' = [stopped |-> TRUE, ids |-> InQueueOrDelivery,
                   total_queued |-> qstats.total_queued]
    /\ UNCHANGED <<now, queue, last_send_time, worker_task, message_item,
                   qattempt, send_response, wake_at, qstats, pending, events_sent, started,
                   finished, drain_since, drain_timed_out, window>>
    /\ UNCHANGED notNotifierVars

\* the worker task receives CancelledError at its await and leaves the
\* loop; stop() resumes, and waits for queue.join() if messages remain
WorkerCancelled ==
    /\ stop_pc = "await_worker"
    /\ worker_task' = "cancelled"
    /\ message_item' = NoItem
    /\ qattempt' = 0
    /\ send_response' = "none"
    /\ wake_at' = 0
    /\ IF Len(queue) > 0
       THEN stop_pc' = "draining" /\ drain_since' = now
       ELSE stop_pc' = "returned" /\ UNCHANGED drain_since
    /\ UNCHANGED <<now, queue, last_send_time, q_is_running, qstats, pending,
                   events_sent, started, finished, drain_timed_out,
                   at_stop, window>>
    /\ UNCHANGED notNotifierVars

\* stop(): wait_for(queue.join(), STOP_TIMEOUT) times out; with the worker
\* task gone no task_done() follows, so join() cannot complete
DrainTimeout ==
    /\ stop_pc = "draining"
    /\ now - drain_since >= STOP_TIMEOUT
    /\ stop_pc' = "returned"
    /\ drain_timed_out' = TRUE
    /\ UNCHANGED <<now, queue, last_send_time, q_is_running, worker_task,
                   message_item, qattempt, send_response, wake_at, qstats, pending,
                   events_sent, started, finished, drain_since,
                   at_stop, window>>
    /\ UNCHANGED notNotifierVars

\* time passes for the notifier
Elapse(d) ==
    /\ now + d <= MaxClock
    /\ now' = now + d
    /\ UNCHANGED notifierVars
    /\ UNCHANGED notNotifierVars

\* the worker task sleeps: time passes until the end of its sleep
SleepElapse(d) ==
    /\ worker_task \in {"rate_sleep", "retry_sleep"}
    /\ now + d = wake_at
    /\ Elapse(d)

(***************************************************************************)
(* OrderService.fetch_order_details                                        *)
(***************************************************************************)
notOrderVars == <<now, main, dead_letter, stats, producerVars, workerVars,
                  replayVars, receiverVars, syncVars, tokenVars, notifierVars,
                  sheetVars, signatureVars, configVars,
                  fanoutVars, lifecycleVars, splitVars, loopVars, catchupVars>>

\* sequences over S of at most n elements
SeqUpTo(S, n) == UNION {[1..k -> S] : k \in 0..n}

\* OrderItemSchema: the fields that fetch_order_details reads; amounts are
\* in cents
OrderItemSchemas ==
    [model_sku : {"", "A"}, item_sku : {"", "P"},
     model_quantity_purchased : {1}, model_discounted_price : {7000}]

\* outcomes of get_order_detail: an exception, a response without orders,
\* an order that OrderDetailResponse rejects, an order with its items
OrderResponses ==
    [kind : {"raise", "no_orders", "invalid"}, item_list : {<<>>}]
    \cup [kind : {"order"}, item_list : SeqUpTo(OrderItemSchemas, MaxItems)]

\* the items of order_income in a get_escrow_detail response
EscrowItems ==
    [model_sku : {"", "A"}, item_sku : {"P"}, selling_price : {0, 5000, 10000}]

\* outcomes of get_escrow_detail: an exception, a body that reports an
\* error, the settlement
EscrowResponses ==
    [kind : {"raise", "error"}, escrow_amount : {0}, items : {<<>>}]
    \cup [kind : {"data"}, escrow_amount : {0, 10001},
          items : SeqUpTo(EscrowItems, MaxItems)]

Pending == [kind |-> "pending"]
NoEscrowData == [kind |-> "None", escrow_amount |-> 0, items |-> <<>>]
NoOrderInfo == [returned |-> "None", items |-> <<>>]

\* _fetch_escrow_data: None when the call raised or the body reports an
\* error, else the response
fetch_escrow_data(resp) ==
    IF resp.kind \in {"raise", "error"} THEN NoEscrowData ELSE resp

RECURSIVE total_selling_price(_)
\* sum(ei.get("selling_price", 0) for ei in escrow_items)
total_selling_price(escrow_items) ==
    IF escrow_items = <<>> THEN 0
    ELSE Head(escrow_items).selling_price
         + total_selling_price(Tail(escrow_items))

\* the SKU test of the matching loop
SkuMatches(escrow_item, item) ==
    \/ escrow_item.model_sku # "" /\ escrow_item.model_sku = item.model_sku
    \/ escrow_item.item_sku # "" /\ escrow_item.item_sku = item.item_sku

\* round(n / d, 2) on amounts in cents: to the nearest cent, ties to even
round(n, d) ==
    LET q == n \div d
        r == n % d
    IN  IF 2 * r < d THEN q
        ELSE IF 2 * r > d THEN q + 1
        ELSE IF q % 2 = 0 THEN q ELSE q + 1

\* variant: without settlement data the item counts with its price
calculate_item_net_income_from_price(item, data) ==
    IF data.kind = "None"
    THEN item.model_discounted_price * item.model_quantity_purchased
    ELSE 0

\* _calculate_item_net_income: the item's pro-rata share of escrow_amount,
\* 0.0 when there is no settlement data or no share can be computed
calculate_item_net_income(item, data) ==
    IF data.kind = "None" THEN 0
    ELSE IF data.escrow_amount = 0 THEN 0
    ELSE IF data.items = <<>> THEN 0
    ELSE LET total_merch_value == total_selling_price(data.items)
             matching == {i \in 1..Len(data.items) :
                             SkuMatches(data.items[i], item)}
         IN  IF total_merch_value = 0 THEN 0
             ELSE IF matching = {} THEN 0
             ELSE LET first == CHOOSE i \in matching :
                                   \A j \in matching : i <= j
                  IN  round(data.escrow_amount * data.items[first].selling_price,
                            total_merch_value)

\* the sku of an item record
ItemSku(item) ==
    IF item.model_sku # "" THEN item.model_sku
    ELSE IF item.item_sku # "" THEN item.item_sku
    ELSE "NO_SKU_"

\* _parse_order_items: one record per item of the order
parse_order_items(item_list, data) ==
    [i \in 1..Len(item_list) |->
        [sku |-> ItemSku(item_list[i]),
         quantity |-> item_list[i].model_quantity_purchased,
         total_sale |-> calculate_item_net_income(item_list[i], data)]]

\* fetch_order_details starts both calls with asyncio.gather
FetchOrderDetails ==
    /\ fetch_pc = "idle"
    /\ fetch_pc' = "gather"
    /\ UNCHANGED <<api_response, escrow_response, escrow_data, order_info>>
    /\ UNCHANGED notOrderVars

\* get_order_detail ends
GetOrderDetailEnds(resp) ==
    /\ fetch_pc = "gather"
    /\ api_response = Pending
    /\ api_response' = resp
    /\ UNCHANGED <<fetch_pc, escrow_response, escrow_data, order_info>>
    /\ UNCHANGED notOrderVars

\* get_escrow_detail ends and _fetch_escrow_data returns
FetchEscrowDataEnds(resp) ==
    /\ fetch_pc = "gather"
    /\ escrow_response = Pending
    /\ escrow_response' = resp
    /\ escrow_data' = fetch_escrow_data(resp)
    /\ UNCHANGED <<fetch_pc, api_response, order_info>>
    /\ UNCHANGED notOrderVars

\* the gather returns and fetch_order_details runs to its return
FetchOrderDetailsReturns ==
    /\ fetch_pc = "gather"
    /\ api_response # Pending
    /\ escrow_response # Pending
    /\ fetch_pc' = "done"
    /\ order_info' =
          IF api_response.kind # "order" THEN NoOrderInfo
          ELSE [returned |-> "OrderUpdateInfo",
                items |-> parse_order_items(api_response.item_list, escrow_data)]
    /\ UNCHANGED <<api_response, escrow_response, escrow_data>>
    /\ UNCHANGED notOrderVars

(***************************************************************************)
(* GoogleSheetsRepository.upsert_order_items                               *)
(***************************************************************************)
notSheetVars == <<now, main, dead_letter, stats, producerVars, workerVars,
                  replayVars, receiverVars, syncVars, tokenVars, notifierVars,
                  orderVars, signatureVars, configVars,
                  fanoutVars, lifecycleVars, splitVars, loopVars, catchupVars>>

\* the item records a call can carry: the key and the two tracked columns
SheetItems ==
    [order_id : {"O1"}, sku : {"A", "B"}, shopee_status : {"SHIPPED", "COMPLETED"},
     total_sale : {0}]

\* ROW_MATCH_KEY_ORDER_ID and ROW_MATCH_KEY_SKU
ItemKeys == [order_id : {"O1"}, sku : {"A", "B"}]

KeyOf(r) == [order_id |-> r.order_id, sku |-> r.sku]

NoUpsert == [items |-> <<>>, returned |-> FALSE]
NotUpserted == [shopee_status |-> "", total_sale |-> Absent]

\* a row of the sheet; notes counts the lines of the Notes column
Row(item, notes) ==
    [order_id |-> item.order_id, sku |-> item.sku,
     shopee_status |-> item.shopee_status, total_sale |-> item.total_sale,
     notes |-> notes]

\* the search of all_records for the row of the item's Order ID and SKU:
\* the first match, 0 without one
ExistingRowIndex(all_records, item) ==
    LET matching == {i \in 1..Len(all_records) :
                        KeyOf(all_records[i]) = KeyOf(item)}
    IN  IF matching = {} THEN 0
        ELSE CHOOSE i \in matching : \A j \in matching : i <= j

\* the change tracking of the Notes column
Changed(old, item) ==
    \/ old.shopee_status # item.shopee_status /\ item.shopee_status # ""
    \/ old.total_sale - item.total_sale > 1
    \/ item.total_sale - old.total_sale > 1

\* one pass of the loop body: the row found in all_records is overwritten
\* at its index, an item not found gets a new row at the top
UpsertItem(rows, all_records, item) ==
    LET i == ExistingRowIndex(all_records, item)
    IN  IF i = 0 THEN <<Row(item, 1)>> \o rows
        ELSE [rows EXCEPT ![i] =
                 Row(item, IF Changed(all_records[i], item)
                           THEN all_records[i].notes + 1
                           ELSE all_records[i].notes)]

RECURSIVE UpsertLoop(_, _, _)
\* for item in items, with the all_records read before the loop
UpsertLoop(rows, all_records, items) ==
    IF items = <<>> THEN rows
    ELSE UpsertLoop(UpsertItem(rows, all_records, Head(items)), all_records,
                    Tail(items))

RECURSIVE Written(_, _)
\* the map after the items were written in their order
Written(map, items) ==
    IF items = <<>> THEN map
    ELSE Written([map EXCEPT ![KeyOf(Head(items))] =
                     [shopee_status |-> Head(items).shopee_status,
                      total_sale |-> Head(items).total_sale]],
                 Tail(items))

\* upsert_order_items, which has no await: the items before position
\* raises_at are processed, then a call of the Sheets API raises and the
\* method returns False; raises_at beyond the items is a call that returns
\* True
UpsertOrderItems(items, raises_at) ==
    /\ upserts < MaxUpserts
    /\ upserts' = upserts + 1
    /\ LET done == SubSeq(items, 1, raises_at - 1)
       IN  /\ worksheet' = UpsertLoop(worksheet, worksheet, done)
           /\ upserted' = Written(upserted, done)
    /\ last_upsert' = [items |-> items, returned |-> raises_at > Len(items)]
    /\ UNCHANGED notSheetVars

(***************************************************************************)
(* verify_push_signature and validate_webhook_request, with the keys, the  *)
(* bodies and the digests spelled out                                      *)
(***************************************************************************)
notSignatureVars == <<now, main, dead_letter, stats, producerVars, workerVars,
                      replayVars, receiverVars, syncVars, tokenVars,
                      notifierVars, orderVars, sheetVars, configVars,
                      fanoutVars, lifecycleVars, splitVars, loopVars, catchupVars>>

\* a key is a string of chunks: the literal "shpk" or a piece of secret
KeyChunks == {"shpk", "a"}
Keys == UNION {[1..k -> KeyChunks] : k \in 0..MaxKeyLen}

\* raw bodies: bytes that are not UTF-8, the empty body, white space, texts
RawBodies == {"undecodable", "", " ", "x", "y"}

\* variant: the key is used as configured
KeepPrefix(key) == key

\* the key with which the digest is computed: key[4:] for a key that
\* starts with "shpk"
StripPrefix(key) ==
    IF key # <<>> /\ Head(key) = "shpk" THEN Tail(key) ELSE key

\* hmac.new(key, body, sha256).hexdigest(): a lowercase hex string that
\* only the same key and the same body give
HexDigest(key, body) == [key |-> key, body |-> body, hex |-> "lower"]

\* Authorization headers: none, the empty string, a digest in lowercase
\* or in uppercase hex
SignatureHeaders ==
    {[key |-> <<>>, body |-> "", hex |-> "none"],
     [key |-> <<>>, body |-> "", hex |-> "empty"]}
    \cup [key : Keys, body : RawBodies \ {"undecodable"}, hex : {"lower", "upper"}]

\* not signature_header
NoHeader(signature_header) == signature_header.hex \in {"none", "empty"}

\* keys_to_try: the configured keys, stripped
keys_to_try(s) ==
    {StripPrefix(key) : key \in {s.partner_key, s.webhook_partner_key} \ {<<>>}}

\* verify_push_signature
VerifyPushSignature(request_body, signature_header, s, debug) ==
    IF NoHeader(signature_header) THEN FALSE
    ELSE IF request_body = "" THEN FALSE
    ELSE IF \E key \in keys_to_try(s) :
               HexDigest(key, request_body) = signature_header
         THEN TRUE
         ELSE debug

\* body_str.strip() is empty
Blank(body_str) == body_str \in {"", " "}

\* validate_webhook_request: is_valid
ValidateWebhookRequest(raw_body, authorization_header, s, debug) ==
    IF raw_body = "undecodable" THEN FALSE
    ELSE IF Blank(raw_body) THEN FALSE
    ELSE VerifyPushSignature(raw_body, authorization_header, s, debug)

NotValidated == [called |-> FALSE, raw_body |-> "",
                 authorization_header |-> [key |-> <<>>, body |-> "", hex |-> "none"],
                 verified |-> FALSE, is_valid |-> FALSE]

\* the webhook of this behaviour is validated; verified is what
\* verify_push_signature gives for the decoded body
ValidateRequest(raw_body, authorization_header) ==
    /\ ~validation.called
    /\ validation' =
          [called |-> TRUE, raw_body |-> raw_body,
           authorization_header |-> authorization_header,
           verified |-> /\ raw_body # "undecodable"
                        /\ VerifyPushSignature(raw_body, authorization_header,
                                               settings, debug_webhook),
           is_valid |-> ValidateWebhookRequest(raw_body, authorization_header,
                                               settings, debug_webhook)]
    /\ UNCHANGED settings
    /\ UNCHANGED notSignatureVars

(***************************************************************************)
(* handle_webhook_event: the side effects of one background task           *)
(***************************************************************************)
\* handle_webhook_event calls explored
MaxHandled == 2

notFanoutVars == <<now, main, dead_letter, stats, producerVars, workerVars,
                   replayVars, receiverVars, syncVars, tokenVars,
                   notifierVars, orderVars, sheetVars, signatureVars,
                   configVars, lifecycleVars, splitVars, loopVars, catchupVars>>

\* the codes of the events followed: order events and one other code
EventCodes == {3, 4, 5}

\* the arguments of a call: the event's code, whether its data has an
\* ordersn, whether _process_webhook_background could create the
\* OrderService and whether a forward URL is configured
HandlerCalls == [code : EventCodes, ordersn : BOOLEAN,
                 order_service : BOOLEAN, forwarder : BOOLEAN]

NoEvent == [code |-> 0, ordersn |-> FALSE, order_service |-> FALSE,
            forwarder |-> FALSE]

\* the first thing the call does: process_order_webhook for an order event
\* when there is an OrderService, else the notification
FirstStep(call) ==
    IF call.order_service /\ call.code \in ORDER_EVENT_CODES
    THEN "order" ELSE "telegram"

\* what follows the notification: forward_webhook when there is a
\* forwarder, else the log entry
AfterTelegram(call) == IF call.forwarder THEN "forward" ELSE "log"

\* _process_webhook_background calls handle_webhook_event, with a
\* forwarder when settings.forward_webhook_url is set
HandleWebhookEventStarts(call) ==
    /\ hpc = "idle"
    /\ call.forwarder = forward_url
    /\ handled < MaxHandled
    /\ handled' = handled + 1
    /\ hev' = call
    /\ effects' = <<>>
    /\ hpc' = FirstStep(call)
    /\ UNCHANGED notFanoutVars

\* process_order_webhook returns: without an ordersn it returns None at
\* once, else fetch_order_details was awaited and gave the order or failed
ProcessOrderWebhookEnds(ok) ==
    /\ hpc = "order"
    /\ effects' = IF hev.ordersn THEN Append(effects, "fetch") ELSE effects
    /\ hpc' = "telegram"
    /\ UNCHANGED <<hev, handled>>
    /\ UNCHANGED notFanoutVars

\* send_webhook_to_telegram returns: send_event handed the message to the
\* notifier queue, or the notifier is disabled, or send_event raised
SendWebhookToTelegram(outcome) ==
    /\ hpc = "telegram"
    /\ effects' = IF outcome = "submitted" THEN Append(effects, "notify")
                  ELSE effects
    /\ hpc' = AfterTelegram(hev)
    /\ UNCHANGED <<hev, handled>>
    /\ UNCHANGED notFanoutVars

\* forward_webhook returns or raises: the producer was called
ForwardWebhookEnds(ok) ==
    /\ hpc = "forward"
    /\ effects' = Append(effects, "forward")
    /\ hpc' = "log"
    /\ UNCHANGED <<hev, handled>>
    /\ UNCHANGED notFanoutVars

\* log_webhook_event appends the entry with the processing status to the
\* day's file; an error of the write is logged only
LogWebhookEvent(ok) ==
    /\ hpc = "log"
    /\ effects' = IF ok THEN Append(effects, "audit") ELSE effects
    /\ hpc' = "idle"
    /\ UNCHANGED <<hev, handled>>
    /\ UNCHANGED notFanoutVars

TelegramOutcomes == {"submitted", "disabled", "raised"}

(***************************************************************************)
(* TelegramMessageQueue.start and stop under concurrent callers            *)
(***************************************************************************)
\* the variables start() and stop() do not touch
notLifecycleVars == <<now, main, dead_letter, stats, producerVars, workerVars,
                      replayVars, receiverVars, syncVars, tokenVars,
                      orderVars, sheetVars, signatureVars, configVars,
                      fanoutVars, splitVars, loopVars, catchupVars>>

\* the fields of the queue object that start() and stop() leave alone
queueRest == <<last_send_time, worker_task, message_item, qattempt, send_response, wake_at,
               qstats, pending, events_sent, started, finished, stop_pc,
               drain_since, drain_timed_out, at_stop, window>>

\* Task.cancel(): a task that is not done gets CancelledError at its await
Cancel(tasks, t) ==
    IF t # 0 /\ tasks[t] = "running" THEN [tasks EXCEPT ![t] = "cancelling"]
    ELSE tasks

\* start(): returns at once on a running queue, else sets is_running and
\* creates the task that runs _process_queue
Start(c) ==
    /\ lpc[c] = "idle"
    /\ ~q_is_running
    /\ created < MaxStarts
    /\ q_is_running' = TRUE
    /\ created' = created + 1
    /\ task' = [task EXCEPT ![created + 1] = "running"]
    /\ UNCHANGED <<queue, lpc, awaited>>
    /\ UNCHANGED queueRest
    /\ UNCHANGED notLifecycleVars

\* stop() up to its first await: on a running queue is_running is cleared,
\* worker_task is cancelled and awaited
Stop(c) ==
    /\ lpc[c] = "idle"
    /\ q_is_running
    /\ q_is_running' = FALSE
    /\ task' = Cancel(task, created)
    /\ awaited' = [awaited EXCEPT ![c] = created]
    /\ lpc' = [lpc EXCEPT ![c] = "await_worker"]
    /\ UNCHANGED <<queue, created>>
    /\ UNCHANGED queueRest
    /\ UNCHANGED notLifecycleVars

\* _process_queue: the cancelled task gets CancelledError and ends
TaskCancelled(t) ==
    /\ task[t] = "cancelling"
    /\ task' = [task EXCEPT ![t] = "done"]
    /\ UNCHANGED <<queue, q_is_running, created, lpc, awaited>>
    /\ UNCHANGED queueRest
    /\ UNCHANGED notLifecycleVars

\* _process_queue: a task takes the oldest message, delivers it and calls
\* task_done()
Consume(t) ==
    /\ task[t] = "running"
    /\ queue # <<>>
    /\ queue' = Tail(queue)
    /\ UNCHANGED <<q_is_running, task, created, lpc, awaited>>
    /\ UNCHANGED queueRest
    /\ UNCHANGED notLifecycleVars

\* stop(): the awaited task has ended; with messages in the queue stop()
\* awaits queue.join(), else it returns
StopResumes(c) ==
    /\ lpc[c] = "await_worker"
    /\ task[awaited[c]] = "done"
    /\ lpc' = [lpc EXCEPT ![c] = IF Len(queue) > 0 THEN "join" ELSE "idle"]
    /\ awaited' = [awaited EXCEPT ![c] = 0]
    /\ UNCHANGED <<queue, q_is_running, task, created>>
    /\ UNCHANGED queueRest
    /\ UNCHANGED notLifecycleVars

\* stop(): queue.join() completes on the empty queue, or its wait_for
\* times out after STOP_TIMEOUT; stop() returns
JoinEnds(c, timed_out) ==
    /\ lpc[c] = "join"
    /\ timed_out \/ queue = <<>>
    /\ lpc' = [lpc EXCEPT ![c] = "idle"]
    /\ UNCHANGED <<queue, q_is_running, task, created, awaited>>
    /\ UNCHANGED queueRest
    /\ UNCHANGED notLifecycleVars

(***************************************************************************)
(* TelegramNotifier._split_long_message                                    *)
(***************************************************************************)
\* lines of a message explored
MaxLines == 3

\* a message is the sequence of its lines (message.split("\n")), a line is
\* its length; a line of length 0 is empty, the other lines begin and end
\* with a character that is not whitespace
LineLengths == {0, 1, 1999, 2000, 4000, 4001}

Messages == UNION {[1..n -> LineLengths] : n \in 1..MaxLines}

MAX_MESSAGE_LENGTH == 4000

\* no call yet: no chunk has a line of that length
NotSplit == <<<<Absent>>>>

notSplitVars == <<now, main, dead_letter, stats, producerVars, workerVars,
                  replayVars, receiverVars, syncVars, tokenVars,
                  notifierVars, orderVars, sheetVars, signatureVars,
                  configVars, fanoutVars, lifecycleVars, loopVars, catchupVars>>

RECURSIVE SumLen(_)
SumLen(lines) ==
    IF lines = <<>> THEN 0 ELSE Head(lines) + SumLen(Tail(lines))

\* len() of the lines joined by "\n"
JoinedLen(lines) ==
    IF lines = <<>> THEN 0 ELSE SumLen(lines) + Len(lines) - 1

\* len(current_chunk): every line of the chunk is followed by "\n"
CurrentLen(lines) == SumLen(lines) + Len(lines)

RECURSIVE lstrip(_)
\* str.strip() at the head: the empty lines in front go with their "\n"
lstrip(lines) ==
    IF lines # <<>> /\ Head(lines) = 0 THEN lstrip(Tail(lines)) ELSE lines

RECURSIVE rstrip(_)
\* str.strip() at the tail: the last "\n" and the empty lines before it go
rstrip(lines) ==
    IF lines # <<>> /\ lines[Len(lines)] = 0
    THEN rstrip(SubSeq(lines, 1, Len(lines) - 1)) ELSE lines

\* current_chunk.strip()
strip(lines) == rstrip(lstrip(lines))

RECURSIVE SplitLoop(_, _, _, _)
\* for line in lines, then the append of the last chunk
SplitLoop(lines, current_chunk, chunks, max_length) ==
    IF lines = <<>>
    THEN IF current_chunk # <<>> THEN Append(chunks, strip(current_chunk))
         ELSE chunks
    ELSE IF CurrentLen(current_chunk) + Head(lines) + 1 <= max_length
    THEN SplitLoop(Tail(lines), Append(current_chunk, Head(lines)), chunks,
                   max_length)
    ELSE SplitLoop(Tail(lines), <<Head(lines)>>,
                   IF current_chunk # <<>>
                   THEN Append(chunks, strip(current_chunk)) ELSE chunks,
                   max_length)

\* _split_long_message: the chunks, each the sequence of its lines
split_long_message(message, max_length) ==
    IF JoinedLen(message) <= max_length THEN <<message>>
    ELSE SplitLoop(message, <<>>, <<>>, max_length)

\* _send_direct calls _split_long_message(message)
SplitLongMessage(message) ==
    /\ split_chunks = NotSplit
    /\ split_message' = message
    /\ split_chunks' = split_long_message(message, MAX_MESSAGE_LENGTH)
    /\ UNCHANGED notSplitVars

(***************************************************************************)
(* RuntimeConfig: the configuration file and its cache                     *)
(***************************************************************************)
notConfigVars == <<now, main, dead_letter, stats, producerVars, workerVars,
                   replayVars, receiverVars, syncVars, tokenVars,
                   notifierVars, orderVars, sheetVars, signatureVars,
                   fanoutVars, lifecycleVars, splitVars, loopVars, catchupVars>>

\* the telegram section of the mapping
TelegramConfigs == [enabled : BOOLEAN, bot_token : {"env", "new"}]

\* _initialize_from_env: the section taken from the environment
EnvConfig == [enabled |-> TRUE, bot_token |-> "env"]

\* arguments of update_telegram; "None" keeps the stored token
BotTokens == {"None", "env", "new"}

\* json.dump writes the text of the mapping in this many pieces
FileChunks == 2

\* the file holding the first n pieces of the text of a mapping
FileWith(config, n) == [of |-> config, chunks |-> n]

\* json.load succeeds: the file holds the whole text of a mapping
Complete(file) == file.chunks = FileChunks

\* update_telegram up to _save_config: the section is replaced in the
\* cache
UpdateTelegram(enabled, bot_token) ==
    /\ cfg_pc = "idle"
    /\ config_cache' =
          [enabled |-> enabled,
           bot_token |-> IF bot_token # "None" THEN bot_token
                         ELSE config_cache.bot_token]
    /\ cfg_pc' = "open"
    /\ UNCHANGED config_file
    /\ UNCHANGED notConfigVars

\* _save_config: open(CONFIG_FILE, 'w') truncates the file, or raises and
\* the error is logged
OpenForWriting(ok) ==
    /\ cfg_pc = "open"
    /\ IF ok
       THEN /\ config_file' = FileWith(config_cache, 0)
            /\ cfg_pc' = "dump"
       ELSE /\ cfg_pc' = "idle"
            /\ UNCHANGED config_file
    /\ UNCHANGED config_cache
    /\ UNCHANGED notConfigVars

\* _save_config: json.dump writes the next piece, or the write raises and
\* the error is logged; after the last piece the update returns
DumpWrites(ok) ==
    /\ cfg_pc = "dump"
    /\ IF ok
       THEN /\ config_file' = FileWith(config_cache, config_file.chunks + 1)
            /\ cfg_pc' = IF config_file.chunks + 1 = FileChunks THEN "idle"
                         ELSE "dump"
       ELSE /\ cfg_pc' = "idle"
            /\ UNCHANGED config_file
    /\ UNCHANGED config_cache
    /\ UNCHANGED notConfigVars

\* the process dies; the file stays as it is
Crash ==
    /\ cfg_pc # "crashed"
    /\ cfg_pc' = "crashed"
    /\ UNCHANGED <<config_file, config_cache>>
    /\ UNCHANGED notConfigVars

\* RuntimeConfig.__init__ of the restarted process: _load_config reads
\* the file; if json.load raises, _initialize_from_env takes the
\* environment's values and saves them
LoadConfig ==
    /\ cfg_pc = "crashed"
    /\ IF Complete(config_file)
       THEN /\ config_cache' = config_file.of
            /\ cfg_pc' = "idle"
       ELSE /\ config_cache' = EnvConfig
            /\ cfg_pc' = "open"
    /\ UNCHANGED config_file
    /\ UNCHANGED notConfigVars

\* the tokens as ShopeeAPIClient.__init__ saves them when
\* none are stored: they expire at once
InitTokens == [access_token |-> 0, refresh_token |-> 0,
               access_token_expires_at |-> 0]

(***************************************************************************)
(* Initial state                                                           *)
(***************************************************************************)
InitAt(t) ==
    /\ now = t
    /\ stats = [total_enqueued |-> 0, total_processed |-> 0, total_failed |-> 0]
    /\ ppc = [p \in Callers |-> "idle"]
    /\ pev = [p \in Callers |-> NoMessage.payload]
    /\ pmsg = [p \in Callers |-> NoMessage]
    /\ hattempt = [p \in Callers |-> 0]
    /\ retry_delay = [p \in Callers |-> 0]
    /\ fres = NoResult
    /\ calls = 0
    /\ pub = [p \in Callers |-> "none"]
    /\ posts = [p \in Callers |-> 0]
    /\ is_running = [w \in Workers |-> FALSE]
    /\ wpc = [w \in Workers |-> "created"]
    /\ wmsg = [w \in Workers |-> NoMessage]
    /\ attempt = [w \in Workers |-> 0]
    /\ wait_time = [w \in Workers |-> 0]
    /\ wsuccess = [w \in Workers |-> FALSE]
    /\ invoked = [w \in Workers |-> 0]
    /\ dlq_pushes = [w \in Workers |-> 0]
    /\ last_outcome = [w \in Workers |-> "none"]
    /\ api_answer = [w \in Workers |-> "none"]
    /\ stopping = "none"
    /\ stopped_at = Absent
    /\ processed = {}
    /\ rpc = "idle"
    /\ rmsg = NoMessage
    /\ retried = 0
    /\ failed = 0
    /\ rlog = NoReplayLog
    /\ rres = NoReplayResult
    /\ replays = 0
    /\ downstream_up = TRUE
    /\ received = 0
    /\ response = NoResponse
    /\ background_tasks = 0
    /\ completed = [ok |-> 0, failed |-> 0]
    /\ sync_lock = NoLock
    /\ spc = [s \in Syncs |-> "idle"]
    /\ sync_result = [s \in Syncs |-> NoSyncResult]
    /\ tpc = [r \in Requests |-> "idle"]
    /\ api_calls = 0
    /\ refresh_posts = 0
    /\ self_access_token = [c \in Clients |->
                              IF c = OrderServiceClient THEN InitTokens.access_token
                              ELSE Absent]
    /\ owner = [r \in Requests |-> OrderServiceClient]
    /\ used_token = [r \in Requests |-> Absent]
    /\ last_send_time = 0
    /\ message_item = NoItem
    /\ qattempt = 0
    /\ send_response = "none"
    /\ wake_at = 0
    /\ pending = <<>>
    /\ started = <<>>
    /\ finished = {}
    /\ stop_pc = "none"
    /\ drain_since = Absent
    /\ drain_timed_out = FALSE
    /\ at_stop = NotStopped
    /\ window = NoWindow
    /\ fetch_pc = "idle"
    /\ api_response = Pending
    /\ escrow_response = Pending
    /\ escrow_data = Pending
    /\ order_info = NoOrderInfo
    /\ worksheet = <<>>
    /\ upserts = 0
    /\ last_upsert = NoUpsert
    /\ upserted = [k \in ItemKeys |-> NotUpserted]
    /\ validation = NotValidated
    /\ cfg_pc = "idle"
    /\ hpc = "idle"
    /\ hev = NoEvent
    /\ effects = <<>>
    /\ handled = 0
    /\ task = [k \in TaskIds |-> "none"]
    /\ created = 0
    /\ lpc = [c \in Callers |-> "idle"]
    /\ awaited = [c \in Callers |-> 0]
    /\ split_message = <<>>
    /\ split_chunks = NotSplit
    /\ sync_orders = <<>>
    /\ loop_result = NoLoop
    /\ cpc = "idle"
    /\ time_from = Absent
    /\ time_to = Absent
    /\ written_to = Absent
    /\ startups = 0

\* RedisCircuitBreaker.__init__
BreakerConstructed ==
    /\ circuit_breaker = [state |-> "closed", failure_count |-> 0,
                          opened_at |-> Absent]
    /\ consecutive = 0

\* no sync has run: the keys of the reconciliation service do not exist
NoSyncRecorded ==
    /\ BreakerConstructed
    /\ sync_history = <<>>
    /\ recorded = <<>>
    /\ last_sync_timestamp = Absent
    /\ last_full_sync_timestamp = Absent

\* TelegramMessageQueue.__init__: empty, the worker task not created
NotifierConstructed ==
    /\ queue = <<>>
    /\ q_is_running = FALSE
    /\ worker_task = "none"
    /\ qstats = [total_queued |-> 0, total_sent |-> 0, total_failed |-> 0]
    /\ events_sent = 0

\* every component as constructed, at time 0
InitNoQueues == InitAt(0) /\ NotifierConstructed /\ NoSyncRecorded

\* settings with the partner key alone
OneKey == [partner_key |-> <<"shpk", "a">>, webhook_partner_key |-> <<>>]

\* no debug override, the tokens as first saved
InitQuietApi ==
    /\ debug_webhook = FALSE
    /\ tokens = InitTokens
    /\ settings = OneKey
    /\ config_cache = EnvConfig
    /\ config_file = FileWith(EnvConfig, FileChunks)

\* the queue path and the forwarder stay as constructed
InitQuietQueues ==
    /\ InitNoQueues
    /\ forward_url = FALSE
    /\ redis_queue = TRUE
    /\ main = <<>>
    /\ dead_letter = <<>>

\* WebhookForwarder.__init__: any combination of URL and queue
InitProducer ==
    /\ InitNoQueues
    /\ InitQuietApi
    /\ main = <<>>
    /\ dead_letter = <<>>
    /\ forward_url \in BOOLEAN
    /\ redis_queue \in BOOLEAN

NextProducer ==
    \/ \E p \in Callers, e \in Events : ForwardWebhook(p, e)
    \/ \E p \in Callers : LpushOk(p)
    \/ \E p \in Callers : LpushFail(p)
    \/ \E p \in Callers, ok \in BOOLEAN : HincrbyReply(p, ok)
    \/ \E p \in Callers, resp \in HttpResponses : HttpReply(p, resp)
    \/ \E p \in Callers : HttpRetry(p)
    \/ \E d \in TickSteps : Tick(d)

SpecProducer == InitProducer /\ [][NextProducer]_vars

\* the forwarder after Threshold failed publishes in a row: the breaker
\* has just opened
InitProbe ==
    /\ InitAt(0)
    /\ NotifierConstructed
    /\ sync_history = <<>>
    /\ recorded = <<>>
    /\ last_sync_timestamp = Absent
    /\ last_full_sync_timestamp = Absent
    /\ InitQuietApi
    /\ main = <<>>
    /\ dead_letter = <<>>
    /\ forward_url \in BOOLEAN
    /\ redis_queue = TRUE
    /\ circuit_breaker = [state |-> "open", failure_count |-> Threshold,
                          opened_at |-> 0]
    /\ consecutive = Threshold

SpecProbe == InitProbe /\ [][NextProducer]_vars

\* one background task running handle_webhook_event at a time
InitFanout ==
    /\ InitNoQueues
    /\ InitQuietApi
    /\ main = <<>>
    /\ dead_letter = <<>>
    /\ forward_url \in BOOLEAN
    /\ redis_queue = FALSE

NextFanout ==
    \/ \E call \in HandlerCalls : HandleWebhookEventStarts(call)
    \/ \E ok \in BOOLEAN : ProcessOrderWebhookEnds(ok)
    \/ \E outcome \in TelegramOutcomes : SendWebhookToTelegram(outcome)
    \/ \E ok \in BOOLEAN : ForwardWebhookEnds(ok)
    \/ \E ok \in BOOLEAN : LogWebhookEvent(ok)

SpecFanout == InitFanout /\ [][NextFanout]_vars

\* the queue as constructed, with messages put by add_message
InitLifecycle ==
    /\ InitAt(0)
    /\ NoSyncRecorded
    /\ InitQuietApi
    /\ main = <<>>
    /\ dead_letter = <<>>
    /\ forward_url = FALSE
    /\ redis_queue = FALSE
    /\ q_is_running = FALSE
    /\ worker_task = "none"
    /\ queue \in {<<>>, <<1>>, <<1, 2>>}
    /\ events_sent = Len(queue)
    /\ qstats = [total_queued |-> Len(queue), total_sent |-> 0,
                 total_failed |-> 0]

NextLifecycle ==
    \/ \E c \in Callers : Start(c)
    \/ \E c \in Callers : Stop(c)
    \/ \E t \in TaskIds : TaskCancelled(t)
    \/ \E t \in TaskIds : Consume(t)
    \/ \E c \in Callers : StopResumes(c)
    \/ \E c \in Callers, timed_out \in BOOLEAN : JoinEnds(c, timed_out)

SpecLifecycle == InitLifecycle /\ [][NextLifecycle]_vars

InitSplit == InitQuietQueues /\ InitQuietApi

NextSplit == \E message \in Messages : SplitLongMessage(message)

SpecSplit == InitSplit /\ [][NextSplit]_vars

\* _process_webhook_background creates the forwarder only with a URL;
\* the queue is attached when settings.redis_enabled
InitDispatch ==
    /\ InitNoQueues
    /\ InitQuietApi
    /\ main = <<>>
    /\ dead_letter = <<>>
    /\ forward_url = TRUE
    /\ redis_queue \in BOOLEAN

NextDispatch ==
    \/ \E e \in RawEvents : HandleWebhookEvent(BackgroundTask, e)
    \/ LpushOk(BackgroundTask)
    \/ LpushFail(BackgroundTask)
    \/ \E ok \in BOOLEAN : HincrbyReply(BackgroundTask, ok)
    \/ \E resp \in HttpResponses : HttpReply(BackgroundTask, resp)
    \/ HttpRetry(BackgroundTask)
    \/ \E d \in TickSteps : Tick(d)

SpecDispatch == InitDispatch /\ [][NextDispatch]_vars

\* the notifier queue as constructed; time.time() is far from the initial
\* last_send_time of 0
InitNotifier ==
    /\ InitAt(seconds_per_message)
    /\ NoSyncRecorded
    /\ NotifierConstructed
    /\ InitQuietApi
    /\ forward_url = FALSE
    /\ redis_queue = TRUE
    /\ main = <<>>
    /\ dead_letter = <<>>

NextNotifier ==
    \/ StartQueueWorker
    \/ SendEvent
    \/ AddMessage
    \/ \E outcome \in SendOutcomes, dur \in SendDurations : QueueGet(outcome, dur, FALSE)
    \/ \E outcome \in SendOutcomes, dur \in SendDurations : RateSleepDone(outcome, dur, FALSE)
    \/ \E outcome \in SendOutcomes, dur \in SendDurations : RetrySleepDone(outcome, dur)
    \/ StopQueueWorker
    \/ WorkerCancelled
    \/ DrainTimeout
    \/ \E d \in ClockSteps : Elapse(d)

SpecNotifier == InitNotifier /\ [][NextNotifier]_vars

\* the notifier with the answers of the chat API told apart
NextDelivery ==
    \/ StartQueueWorker
    \/ SendEvent
    \/ AddMessage
    \/ \E outcome \in DeliveryOutcomes, dur \in SendDurations :
          QueueGet(outcome, dur, FALSE)
    \/ \E outcome \in DeliveryOutcomes, dur \in SendDurations :
          RateSleepDone(outcome, dur, FALSE)
    \/ \E outcome \in DeliveryOutcomes, dur \in SendDurations :
          RetrySleepDone(outcome, dur)
    \/ StopQueueWorker
    \/ WorkerCancelled
    \/ DrainTimeout
    \/ \E d \in ClockSteps : Elapse(d)

SpecDelivery == InitNotifier /\ [][NextDelivery]_vars

\* a burst of messages waits in the queue of the running worker task
InitBurst ==
    /\ InitAt(seconds_per_message)
    /\ NoSyncRecorded
    /\ InitQuietApi
    /\ forward_url = FALSE
    /\ redis_queue = TRUE
    /\ main = <<>>
    /\ dead_letter = <<>>
    /\ queue = [i \in 1..BurstSize |-> i]
    /\ q_is_running = TRUE
    /\ worker_task = "get"
    /\ qstats = [total_queued |-> BurstSize, total_sent |-> 0, total_failed |-> 0]
    /\ events_sent = BurstSize

NextBurst ==
    \/ \E outcome \in SendOutcomes, dur \in SendDurations, open \in BOOLEAN :
          QueueGet(outcome, dur, open)
    \/ \E outcome \in SendOutcomes, dur \in SendDurations, open \in BOOLEAN :
          RateSleepDone(outcome, dur, open)
    \/ \E outcome \in SendOutcomes, dur \in SendDurations : RetrySleepDone(outcome, dur)
    \/ \E d \in 1..seconds_per_message : SleepElapse(d)

SpecBurst == InitBurst /\ [][NextBurst]_vars

\* the envelope publish() enqueues for order serial number o
Envelope(o) ==
    Message([code |-> 3, ordersn |-> o, status |-> "READY_TO_SHIP"], 0)

\* the first n envelopes, as the main list holds them after n publishes
Queued(n) == [i \in 1..n |-> Envelope(QueuedOrderSns[n + 1 - i])]

\* the worker pool is created with envelopes waiting in the main list; the
\* Receiver publishes to Redis only
InitWorker ==
    /\ InitNoQueues
    /\ InitQuietApi
    /\ forward_url = FALSE
    /\ redis_queue = TRUE
    /\ main \in {Queued(n) : n \in 1..Len(QueuedOrderSns)}
    /\ dead_letter = <<>>

NextWorker ==
    \/ \E w \in Workers : WorkerStart(w)
    \/ \E w \in Workers : Brpop(w)
    \/ \E w \in Workers : BrpopTimeout(w)
    \/ \E w \in Workers : BrpopError(w)
    \/ \E w \in Workers : ErrorSleepDone(w)
    \/ \E w \in Workers, answer \in ApiAnswers, outcome \in ProcessOutcomes :
          ProcessWebhookEnds(w, answer, outcome)
    \/ \E w \in Workers : BackoffDone(w)
    \/ \E w \in Workers, ok \in BOOLEAN : DlqLpushEnds(w, ok)
    \/ \E w \in Workers, ok \in BOOLEAN : UpdateStatsEnds(w, ok)
    \/ StopConsumerWorkers
    \/ StopGraceful
    \/ StopTimeout
    \/ \E d \in TickSteps : Tick(d)

SpecWorker == InitWorker /\ [][NextWorker]_vars

\* the envelopes of the events the pool may find in the main list: order
\* events, unpaid orders and events of other codes
PoolEvents(o) == [code : {3, 5}, ordersn : {o}, status : {"UNPAID", "READY_TO_SHIP"}]

\* two envelopes wait in the main list, of any kind of event
InitProcessor ==
    /\ InitNoQueues
    /\ InitQuietApi
    /\ forward_url = FALSE
    /\ redis_queue = TRUE
    /\ \E e1 \in PoolEvents(QueuedOrderSns[1]), e2 \in PoolEvents(QueuedOrderSns[2]) :
          main = <<Message(e2, 0), Message(e1, 0)>>
    /\ dead_letter = <<>>

SpecProcessor == InitProcessor /\ [][NextWorker]_vars

\* the dead letter entry worker 1 pushed for order serial number o
DeadLetter(o) == dlq_message(Envelope(o).payload, Envelope(o).metadata, 0, 1)

\* the first n dead letter entries, as the list holds them
DeadLetters(n) == [i \in 1..n |-> DeadLetter(QueuedOrderSns[n + 1 - i])]

\* the dashboard replays a dead letter list the pool has filled
InitReplay ==
    /\ InitNoQueues
    /\ InitQuietApi
    /\ forward_url = FALSE
    /\ redis_queue = TRUE
    /\ main = <<>>
    /\ dead_letter \in {DeadLetters(n) : n \in 0..Len(QueuedOrderSns)}

NextReplay ==
    \/ RetryDlqMessages
    \/ \E ok \in BOOLEAN : LlenEnds(ok)
    \/ \E ok \in BOOLEAN : RpopEnds(ok)
    \/ \E ok \in BOOLEAN : ReplayLpushEnds(ok)
    \/ \E w \in Workers : WorkerStart(w)
    \/ \E w \in Workers : Brpop(w)
    \/ \E w \in Workers, outcome \in {"true", "false"} :
          ProcessWebhookEnds(w, "order", outcome)
    \/ \E w \in Workers : BackoffDone(w)
    \/ \E w \in Workers, ok \in BOOLEAN : DlqLpushEnds(w, ok)
    \/ \E w \in Workers, ok \in BOOLEAN : UpdateStatsEnds(w, ok)
    \/ \E d \in TickSteps : Tick(d)

SpecReplay == InitReplay /\ [][NextReplay]_vars

\* the webhook endpoint, with and without the debug override
InitReceiver ==
    /\ config_cache = EnvConfig
    /\ config_file = FileWith(EnvConfig, FileChunks)
    /\ InitQuietQueues
    /\ debug_webhook \in BOOLEAN
    /\ tokens = InitTokens
    /\ settings = OneKey

NextReceiver ==
    \/ \E body \in Bodies, authorization \in Authorizations :
          ShopeeApi(body, authorization)
    \/ ProcessWebhookBackground
    \/ DownstreamChanges

SpecReceiver == InitReceiver /\ [][NextReceiver]_vars

InitSync ==
    /\ InitQuietQueues
    /\ InitQuietApi

NextSync ==
    \/ \E s \in Syncs : SyncStart(s)
    \/ \E s \in Syncs : AcquireEnds(s)
    \/ \E s \in Syncs, ok \in BOOLEAN : FetchUpsertEnds(s, ok)
    \/ \E s \in Syncs : LpushEnds(s)
    \/ \E s \in Syncs : LtrimEnds(s)
    \/ \E s \in Syncs : SetLastSyncEnds(s)
    \/ \E s \in Syncs : SetLastFullSyncEnds(s)
    \/ \E s \in Syncs : ReleaseEnds(s)
    \/ \E d \in SyncTickSteps : LongTick(d)

SpecSync == InitSync /\ [][NextSync]_vars

\* a sync that runs alone, at a time after the start of the worker
InitLoop ==
    /\ InitAt(SYNC_TIMEOUT_SECONDS)
    /\ NotifierConstructed
    /\ NoSyncRecorded
    /\ InitQuietApi
    /\ forward_url = FALSE
    /\ redis_queue = TRUE
    /\ main = <<>>
    /\ dead_letter = <<>>

NextLoop ==
    \E s \in Syncs, outcomes \in OrderLists : SyncOrdersInRange(s, outcomes)

SpecLoop == InitLoop /\ [][NextLoop]_vars

\* the first startup of the worker, on a store without a sync
InitCatchup ==
    /\ InitAt(FirstStartup)
    /\ NotifierConstructed
    /\ NoSyncRecorded
    /\ InitQuietApi
    /\ forward_url = FALSE
    /\ redis_queue = TRUE
    /\ main = <<>>
    /\ dead_letter = <<>>

NextCatchup ==
    \/ StartupCatchupSync
    \/ \E d \in CatchupSteps : CatchupTick(d)
    \/ \E ok \in BOOLEAN : CatchupSyncEnds(ok)

SpecCatchup == InitCatchup /\ [][NextCatchup]_vars

\* the results of the hourly syncs of the hours before, newest first
EarlierResults(k) ==
    [i \in 1..k |-> SyncResult("scheduled", TRUE, 0 - 3600 * i)]

\* the worker starts with the history that earlier runs left in Redis
InitHistory ==
    /\ InitAt(0)
    /\ NotifierConstructed
    /\ BreakerConstructed
    /\ InitQuietApi
    /\ forward_url = FALSE
    /\ redis_queue = TRUE
    /\ main = <<>>
    /\ dead_letter = <<>>
    /\ \E k \in {HISTORY_LENGTH - 1, HISTORY_LENGTH} :
          /\ sync_history = EarlierResults(k)
          /\ recorded = EarlierResults(k)
    /\ last_sync_timestamp = 0 - 3600
    /\ last_full_sync_timestamp = Absent

SpecHistory == InitHistory /\ [][NextSync]_vars

\* the stored tokens are expired (five minute buffer included) or valid
InitToken ==
    /\ config_cache = EnvConfig
    /\ config_file = FileWith(EnvConfig, FileChunks)
    /\ InitQuietQueues
    /\ debug_webhook = FALSE
    /\ settings = OneKey
    /\ tokens \in {[InitTokens EXCEPT !.access_token_expires_at = e] :
                      e \in {0, 300, 301}}

NextToken ==
    \/ \E r \in Requests : MakeRequest(r)
    \/ \E r \in Requests, ok \in BOOLEAN, expire_in \in ExpireIns :
          RefreshEnds(r, ok, expire_in)
    \/ \E r \in Requests : GetEnds(r)

SpecToken == InitToken /\ [][NextToken]_vars

\* several client instances in one process: the OrderService of the worker
\* and the instances created per background task
NextClients ==
    \/ \E c \in Clients : CreateClient(c)
    \/ \E c \in Clients, r \in Requests : ClientMakesRequest(c, r)
    \/ \E r \in Requests, ok \in BOOLEAN, expire_in \in ExpireIns :
          RefreshEnds(r, ok, expire_in)
    \/ \E r \in Requests : GetEnds(r)

SpecClients == InitToken /\ [][NextClients]_vars

\* one fetch_order_details with every outcome of its two calls
InitOrder == InitQuietQueues /\ InitQuietApi

NextOrder ==
    \/ FetchOrderDetails
    \/ \E resp \in OrderResponses : GetOrderDetailEnds(resp)
    \/ \E resp \in EscrowResponses : FetchEscrowDataEnds(resp)
    \/ FetchOrderDetailsReturns

SpecOrder == InitOrder /\ [][NextOrder]_vars

\* the sheet with its header row and no orders
InitSheet == InitQuietQueues /\ InitQuietApi

NextSheet ==
    \E items \in SeqUpTo(SheetItems, MaxItems) :
        \E raises_at \in 1..(Len(items) + 1) : UpsertOrderItems(items, raises_at)

SpecSheet == InitSheet /\ [][NextSheet]_vars

\* any two keys in the settings, the debug override on or off
InitSignature ==
    /\ config_cache = EnvConfig
    /\ config_file = FileWith(EnvConfig, FileChunks)
    /\ InitQuietQueues
    /\ tokens = InitTokens
    /\ debug_webhook \in BOOLEAN
    /\ settings \in [partner_key : Keys, webhook_partner_key : Keys]

NextSignature ==
    \E raw_body \in RawBodies, authorization_header \in SignatureHeaders :
        ValidateRequest(raw_body, authorization_header)

SpecSignature == InitSignature /\ [][NextSignature]_vars

\* the file holds a whole mapping and the cache was loaded from it
ConfigLoaded ==
    /\ config_cache \in TelegramConfigs
    /\ config_file = FileWith(config_cache, FileChunks)

InitConfig ==
    /\ InitQuietQueues
    /\ debug_webhook = FALSE
    /\ tokens = InitTokens
    /\ settings = OneKey
    /\ ConfigLoaded

NextConfig ==
    \/ \E enabled \in BOOLEAN, bot_token \in BotTokens :
          UpdateTelegram(enabled, bot_token)
    \/ \E ok \in BOOLEAN : OpenForWriting(ok)
    \/ \E ok \in BOOLEAN : DumpWrites(ok)
    \/ Crash
    \/ LoadConfig

SpecConfig == InitConfig /\ [][NextConfig]_vars


(***************************************************************************)
(* Properties of the Redis producer, the circuit breaker and the forwarder *)
(***************************************************************************)
\* a forward_webhook call starts in this step
CallStep == calls' = calls + 1

\* the breaker is open and its timeout has not passed
BreakerBlocks ==
    /\ circuit_breaker.state = "open"
    /\ now - circuit_breaker.opened_at <= Timeout

\* the call of this step got "fallback" from publish() with no Redis command
ShortCircuited ==
    \/ /\ fres'.returned
       /\ ~fres'.success
       /\ fres'.publish = "fallback"
    \/ \E p \in Callers :
          /\ ppc[p] = "idle"
          /\ ppc'[p] = "http"
          /\ pub'[p] = "fallback"

\* the call of this step issued the LPUSH
LpushAttempted ==
    \E p \in Callers : ppc[p] = "idle" /\ ppc'[p] = "lpush"

\* C5: publish() issues no Redis command exactly when the breaker is open
\* and now - opened_at <= timeout at the call; it then returns success=false,
\* fallback_used=true and leaves the main list, the stats hash and the
\* breaker unchanged; in every other breaker state it attempts the LPUSH.
C5_ShortCircuitIffOpenWithinTimeout ==
    [][(CallStep /\ redis_queue) =>
          IF BreakerBlocks
          THEN /\ ShortCircuited
               /\ main' = main
               /\ stats' = stats
               /\ circuit_breaker' = circuit_breaker
          ELSE LpushAttempted]_vars

\* C5 witness: a publish at exactly opened_at + timeout was short-circuited
C5_Witness ==
    \E p \in Callers :
        /\ ppc[p] = "http"
        /\ pub[p] = "fallback"
        /\ circuit_breaker.state = "open"
        /\ now - circuit_breaker.opened_at = Timeout

C10_PostOnlyAfterFailedPublish ==
    /\ \A p \in Callers :
          posts[p] > 0 => (pub[p] = "fallback" \/ (~redis_queue /\ pub[p] = "none"))
    /\ fres.posts > 0 =>
          (fres.publish = "fallback" \/ (~redis_queue /\ fres.publish = "none"))
    /\ (fres.returned /\ fres.publish = "success") =>
          (fres.posts = 0 /\ fres.method = "redis")

\* C10 witness: the LPUSH of a call failed and the call then POSTed
C10_Witness ==
    \E p \in Callers :
        redis_queue /\ posts[p] >= 1 /\ pub[p] = "fallback" /\ consecutive > 0

\* what the call of caller p returns in this step, as the caller sees it
Returns(success, n) ==
    /\ fres'.returned /\ fres'.method = "http_fallback"
    /\ fres'.success = success
    /\ fres'.attempts = n /\ fres'.posts = n

\* C11: the HTTP fallback makes at most 3 POSTs per event; a 2xx reply ends
\* it with success and a 4xx reply with failure at once; after a 5xx reply,
\* a timeout or a connect error it waits 1 s after the first POST and 2 s
\* after the second before the next POST, and fails after the third; the
\* attempts value it returns is the number of POSTs it made.
C11_HttpFallbackRetries ==
    [][\A p \in Callers :
          /\ posts'[p] <= 3
          /\ posts'[p] > posts[p] =>
                /\ posts'[p] = posts[p] + 1
                /\ posts[p] > 0 => (ppc[p] = "http_sleep" /\ retry_delay[p] = posts[p])
          /\ HttpReply(p, "2xx") => Returns(TRUE, posts[p])
          /\ HttpReply(p, "4xx") => Returns(FALSE, posts[p])
          /\ \A resp \in {"5xx", "timeout", "connect"} :
                HttpReply(p, resp) =>
                   IF posts[p] < 3
                   THEN /\ ~fres'.returned
                        /\ ppc'[p] = "http_sleep"
                        /\ retry_delay'[p] = posts[p]
                   ELSE Returns(FALSE, 3)
          /\ (fres'.returned /\ fres'.method = "http_fallback") =>
                fres'.attempts = fres'.posts]_vars

\* a fallback was given up after the third POST, having waited twice
C11_Witness ==
    /\ fres.returned /\ fres.method = "http_fallback"
    /\ ~fres.success /\ fres.attempts = 3 /\ fres.posts = 3

\* C13: an event whose code is not 3 or 4 is never published to the main
\* queue nor POSTed to the fallback URL by the Receiver.
C13_OnlyOrderEventsDispatched ==
    /\ \A i \in 1..Len(main) : main[i].payload.code \in {3, 4}
    /\ \A p \in Callers : posts[p] > 0 => pev[p].code \in {3, 4}

(***************************************************************************)
(* Properties of the worker pool                                           *)
(***************************************************************************)
AllOrderSns == {QueuedOrderSns[i] : i \in 1..Len(QueuedOrderSns)}

\* number of dead letter entries for order serial number o
DeadLetterCount(o) ==
    Cardinality({i \in 1..Len(dead_letter) : dead_letter[i].payload.ordersn = o})

\* the envelope of o waits in main, is in the hands of a worker, was
\* processed successfully, or is in dead_letter exactly once
Accounted(o) ==
    \/ \E i \in 1..Len(main) : main[i].payload.ordersn = o
    \/ \E w \in Workers : wmsg[w].payload.ordersn = o
    \/ o \in processed
    \/ DeadLetterCount(o) = 1

\* C1: no popped envelope is silently lost: an envelope that is in the main
\* list stays accounted for (waiting, being processed, processed with
\* success, or in dead_letter exactly once) through every step of the
\* pool, worker stop and hard cancellation included.
C1_NoEnvelopeLost ==
    [][\A o \in AllOrderSns :
          Accounted(o) => (Accounted(o)' /\ DeadLetterCount(o)' <= 1)]_vars

\* attempts the retry loop makes for the message in the hands of w
MaxInvocations(w) ==
    wmsg[w].metadata.max_retries - wmsg[w].metadata.retry_count + 1

\* _process_message of worker w returns in this step
MessageDone(w) == wpc[w] = "hincrby" /\ wpc'[w] \in {"brpop", "done"}

\* C7: for each envelope a worker pops exactly one of two outcomes occurs:
\* total_processed is incremented and nothing was pushed to dead_letter, or
\* all attempts failed, the envelope was pushed to dead_letter exactly once
\* and total_failed is incremented; and the dead_letter push is issued only
\* after the retries are exhausted.
C7_ProcessedOrDeadLettered ==
    [][\A w \in Workers :
          /\ MessageDone(w) =>
                IF wsuccess[w]
                THEN dlq_pushes[w] = 0 /\ last_outcome[w] = "true"
                ELSE /\ dlq_pushes[w] = 1
                     /\ invoked[w] = MaxInvocations(w)
                     /\ last_outcome[w] \in {"false", "raise"}
          /\ (wpc[w] # "dlq_lpush" /\ wpc'[w] = "dlq_lpush") =>
                /\ invoked'[w] = MaxInvocations(w)'
                /\ last_outcome'[w] \in {"false", "raise"}]_vars

\* C8: for the envelope in hand, with retry_count r and max_retries m, the
\* worker calls process_webhook at most m - r + 1 times, makes no call after
\* one that returned true, handles a raised exception exactly like a false
\* return, and sleeps 2^attempt seconds before each further attempt.
C8_BoundedRetryWithBackoff ==
    [][\A w \in Workers :
          /\ wmsg'[w] # NoMessage => invoked'[w] <= MaxInvocations(w)'
          /\ (invoked[w] > 0 /\ invoked'[w] = invoked[w] + 1) =>
                /\ wpc[w] = "sleep"
                /\ wait_time[w] = 2 ^ attempt[w]
                /\ attempt'[w] = attempt[w] + 1
                /\ last_outcome[w] \in {"false", "raise"}
          /\ (wpc[w] = "process" /\ wpc'[w] \notin {"process", "cancelled"}) =>
                IF last_outcome'[w] = "true"
                THEN wpc'[w] = "hincrby" /\ wsuccess'[w]
                ELSE IF attempt[w] < wmsg[w].metadata.max_retries
                THEN wpc'[w] = "sleep" /\ wait_time'[w] = 2 ^ attempt[w]
                ELSE wpc'[w] = "dlq_lpush"]_vars

\* C8 witness: the last of the m - r + 1 attempts is running after a sleep
\* of 2^2 seconds that followed a raised exception
C8_Witness ==
    \E w \in Workers :
        /\ wpc[w] = "process"
        /\ invoked[w] = redis_max_retries + 1
        /\ attempt[w] = redis_max_retries
        /\ wait_time[w] = 4
        /\ last_outcome[w] = "raise"

\* the event is one process_webhook ignores
Ignored(event_payload) ==
    event_payload.status = "UNPAID" \/ event_payload.code \notin {3, 4}

\* C12: for an event whose status is ignored or whose code is not an order
\* event code, process_webhook returns success without calling the upstream
\* API or the sink: the worker that pops its envelope goes straight to the
\* total_processed increment, never awaits the upstream call, a backoff or a
\* dead letter push, and the envelope never reaches the dead_letter list.
C12_SkippedEventsSucceed ==
    [][/\ \A w \in Workers :
             /\ (wmsg'[w] # NoMessage /\ Ignored(wmsg'[w].payload)) =>
                   /\ wpc'[w] \notin {"process", "sleep", "dlq_lpush"}
                   /\ wsuccess'[w] /\ invoked'[w] = 1
             /\ (Brpop(w) /\ Ignored(main[Len(main)].payload)) =>
                   (wpc'[w] = "hincrby" /\ wmsg'[w] = main[Len(main)])
             /\ (UpdateStatsEnds(w, TRUE) /\ Ignored(wmsg[w].payload)) =>
                   stats'.total_processed = stats.total_processed + 1
       /\ \A i \in 1..Len(dead_letter') : ~Ignored(dead_letter'[i].payload)]_vars

\* a worker popped the envelope of an ignored event and counted it
C12_Witness ==
    /\ stats.total_processed >= 1
    /\ \E o \in processed : \A i \in 1..Len(main) : main[i].payload.ordersn # o
    /\ \E w \in Workers : wpc[w] = "hincrby" /\ Ignored(wmsg[w].payload)

\* C18: after stop() has been called on the consumers, no consumer issues a
\* further BRPOP: its loop ends once the message in hand or the pending
\* BRPOP completes, however its start() task interleaves with the stop();
\* a task is cancelled only when it still runs 30 s after the stop.
C18_StoppedLoopExits ==
    [][\A w \in Workers :
          /\ (stopping # "none" /\ wpc'[w] = "brpop") => wpc[w] = "brpop"
          /\ (wpc'[w] = "cancelled" /\ wpc[w] # "cancelled") =>
                (stopping = "waiting" /\ now - stopped_at >= 30)]_vars

(***************************************************************************)
(* Properties of the dead letter replay                                    *)
(***************************************************************************)
\* retry_dlq_messages returns success in this step
ReplayCompletes == rpc # "idle" /\ rpc' = "idle" /\ rres'.success

\* after the step: dead_letter is empty and every entry counted as retried
\* is in main with reset metadata and the payload it had in dead_letter
Replayed ==
    /\ dead_letter' = <<>>
    /\ rres'.retried_count = Len(rlog'.pushed)
    /\ \A i \in 1..Len(rlog'.pushed) :
          LET e == rlog'.pushed[i] IN
          /\ \E j \in 1..Len(main') : main'[j] = e.to
          /\ e.to.metadata.retry_count = 0
          /\ e.to.metadata.enqueued_at >= rlog'.start
          /\ e.to.metadata.moved_to_dlq_at = Absent
          /\ e.to.metadata.worker_id = Absent
          /\ e.to.payload = e.from.payload

\* C9 as stated: after replay_all completes with no concurrent writer to
\* dead_letter, dead_letter is empty and every entry counted as retried is
\* in main with retry_count 0, a fresh enqueued_at, no moved_to_dlq_at, no
\* worker_id and an unchanged payload.
C9_ReplayedEntriesInMain ==
    [][(ReplayCompletes /\ ~rlog'.dlq_written) => Replayed]_vars

\* C9 amended: the same, when in addition no worker popped the main list
\* while the replay ran.
C9_ReplayedEntriesInMainUnlessPopped ==
    [][(ReplayCompletes /\ ~rlog'.dlq_written /\ ~rlog'.main_popped)
          => Replayed]_vars

\* C9 witness: a replay of two entries completed at time 60 with no worker
\* touching the lists; both entries are in main with a fresh enqueued_at
C9_Witness ==
    /\ rres.returned
    /\ rres.success
    /\ rres.retried_count = 2
    /\ ~rlog.dlq_written
    /\ ~rlog.main_popped
    /\ dead_letter = <<>>
    /\ Len(main) = 2
    /\ main[1].metadata.enqueued_at = 60
    /\ main[1].metadata.worker_id = Absent

(***************************************************************************)
(* Properties of the webhook endpoint                                      *)
(***************************************************************************)
\* the endpoint answered 200 with an empty body
Acknowledged == response.status_code = 200 /\ response.content = ""

\* validate_webhook_request accepted the request of the last response
Accepted ==
    validate_webhook_request(response.body, response.authorization,
                             debug_webhook)

\* C2 as stated: every POST is answered 200 with an empty body, and the
\* background fan-out is scheduled if and only if validate_webhook_request
\* accepted the request and the body parsed as JSON.
C2_AckAndScheduleIffValidJson ==
    response.sent =>
        /\ Acknowledged
        /\ response.scheduled <=>
              (Accepted /\ json_loads(response.body) # "error")

\* C2 amended: every POST is answered 200 with an empty body, and the
\* background fan-out is scheduled if and only if validate_webhook_request
\* accepted the request and the body parsed as a JSON object.
C2_AckAndScheduleIffValidJsonObject ==
    response.sent =>
        /\ Acknowledged
        /\ response.scheduled <=>
              (Accepted /\ json_loads(response.body) = "dict")

\* C2 witness: a signed JSON object was acknowledged and scheduled while
\* the downstream services are unavailable
C2_Witness ==
    /\ response.sent
    /\ response.scheduled
    /\ response.body = "json_object"
    /\ response.authorization = "signed"
    /\ Acknowledged
    /\ background_tasks > 0
    /\ ~downstream_up

(***************************************************************************)
(* Properties of the notifier queue                                        *)
(***************************************************************************)
\* C14: in any 60 s window the consumer starts the delivery of at most
\* messages_per_minute messages (retries not counted), and the first send
\* attempt of a message begins no sooner than seconds_per_message after the
\* delivery of the previous message ended.
C14_RateLimited ==
    [][/\ window'.count <= 15
       /\ Len(started') > Len(started) =>
             /\ Len(started') = Len(started) + 1
             /\ now >= last_send_time + 4]_vars

\* a window in which the full quota of deliveries was started, the last of
\* them after a retried delivery
C14_Witness ==
    /\ window.count = 15
    /\ qstats.total_failed + qstats.total_sent >= 15
    /\ Len(started) >= 15

\* C15: when stop() has returned without its 30 s drain timeout elapsing,
\* every message that was in the queue or in delivery when stop() was
\* called has been delivered or has exhausted its retries.
C15_StopDrains ==
    (stop_pc = "returned" /\ ~drain_timed_out) =>
        at_stop.ids \subseteq finished

\* C16: once stop() has been called no message is added to the queue or
\* counted in total_queued.
C16_NoEnqueueAfterStop ==
    at_stop.stopped =>
        /\ qstats.total_queued = at_stop.total_queued
        /\ \A i \in 1..Len(queue) : queue[i] \in at_stop.ids

\* C17: deliveries start in the order of the send_event calls.
C17_FifoDelivery ==
    \A i, j \in 1..Len(started) : i < j => started[i] < started[j]

\* three messages were started in order, the worker task having slept for
\* the rate limit in between
C17_Witness ==
    /\ Len(started) = 3
    /\ started = <<1, 2, 3>>
    /\ last_send_time > seconds_per_message

(***************************************************************************)
(* Properties of the reconciliation lock                                   *)
(***************************************************************************)
\* C3: under any schedule of startup, scheduled, daily and manual syncs at
\* most one sync_orders_in_range call is in its fetch/upsert phase.
C3_AtMostOneSyncRunning ==
    Cardinality({s \in Syncs : spc[s] = "fetch"}) <= 1

(***************************************************************************)
(* Properties of the token refresh                                         *)
(***************************************************************************)
\* C4: when several requests observe an expired access token, one POST to
\* the refresh endpoint is issued: never are two refresh_access_token calls
\* in flight.
C4_SingleFlightRefresh ==
    Cardinality({r \in Requests : tpc[r] = "refresh"}) <= 1

\* C19: once a refreshed token has been persisted, every request issued by
\* any client instance is signed and sent with the stored, refreshed access
\* token, never with an older value.
C19_RequestsUseRefreshedToken ==
    [][\A r \in Requests :
          (tokens'.access_token > 0 /\ tpc'[r] = "get" /\ tpc[r] # "get") =>
              used_token'[r] = tokens'.access_token]_vars

(***************************************************************************)
(* Properties of fetch_order_details                                       *)
(***************************************************************************)
SettlementFailed == escrow_response.kind \in {"raise", "error"}

AllTotalSaleZero ==
    \A i \in 1..Len(order_info.items) : order_info.items[i].total_sale = 0

RECURSIVE SumTotalSale(_)
SumTotalSale(items) ==
    IF items = <<>> THEN 0
    ELSE Head(items).total_sale + SumTotalSale(Tail(items))

\* the order items that match a settlement row
MatchedItems ==
    {i \in 1..Len(api_response.item_list) :
        \E j \in 1..Len(escrow_data.items) :
            SkuMatches(escrow_data.items[j], api_response.item_list[i])}

Distance(a, b) == IF a >= b THEN a - b ELSE b - a

\* C21: when escrow_amount > 0 and at least one order item matches a
\* settlement row, the total_sale values of the returned items sum to
\* escrow_amount up to one cent per matched item.
C21_SharesSumToEscrowAmount ==
    (/\ fetch_pc = "done"
     /\ api_response.kind = "order"
     /\ escrow_data.kind = "data"
     /\ escrow_data.escrow_amount > 0
     /\ MatchedItems # {}) =>
        Distance(SumTotalSale(order_info.items), escrow_data.escrow_amount)
            <= Cardinality(MatchedItems)

(***************************************************************************)
(* Properties of the sync records                                          *)
(***************************************************************************)
\* C22: last_sync_timestamp is written only for a recorded SyncResult with
\* success = true, and then becomes that result's completed_at;
\* last_full_sync_timestamp is written only for such a result of type
\* daily; a failed or a skipped sync writes neither.
C22_TimestampsFollowSuccess ==
    [][/\ last_sync_timestamp' # last_sync_timestamp =>
            \E s \in Syncs :
                /\ spc[s] = "set_last"
                /\ sync_result[s].success
                /\ sync_result[s] \in {recorded[i] : i \in 1..Len(recorded)}
                /\ last_sync_timestamp' = sync_result[s].completed_at
       /\ last_full_sync_timestamp' # last_full_sync_timestamp =>
            \E s \in Syncs :
                /\ spc[s] = "set_full"
                /\ sync_result[s].success
                /\ sync_result[s].sync_type = "daily"
                /\ last_full_sync_timestamp' = sync_result[s].completed_at
       /\ \A s \in Syncs :
            (spc'[s] = "release" /\ spc[s] # "release") =>
                IF sync_result[s].success
                THEN /\ spc[s] \in {"set_last", "set_full"}
                     /\ (sync_result[s].sync_type = "daily") = (spc[s] = "set_full")
                ELSE spc[s] = "ltrim"]_vars

C22_Witness ==
    /\ last_sync_timestamp = SYNC_TIMEOUT_SECONDS
    /\ last_full_sync_timestamp = SYNC_TIMEOUT_SECONDS
    /\ \E i \in 1..Len(sync_history) : ~sync_history[i].success

\* _record_sync_result of sync s returns in this step
RecordCompletes(s) == spc[s] \in {"ltrim", "set_last", "set_full"} /\ spc'[s] = "release"

\* C23: whenever a _record_sync_result has completed, the history holds at
\* most 10 entries, and they are the 10 most recently recorded SyncResults,
\* newest first, whatever the number and interleaving of the syncs.
C23_HistoryHoldsLastTen ==
    [][\A s \in Syncs :
          RecordCompletes(s) =>
              /\ Len(sync_history') <= HISTORY_LENGTH
              /\ sync_history' = Ltrim(recorded', HISTORY_LENGTH - 1)]_vars

(***************************************************************************)
(* Properties of the sheet                                                 *)
(***************************************************************************)
RowsOf(k) == {i \in 1..Len(worksheet) : KeyOf(worksheet[i]) = k}

\* C24: the sheet is a map keyed by (order_id, sku): it holds exactly one
\* row per key ever upserted, with the values last upserted for it, and no
\* row of a key never upserted.
C24_SheetIsMapByKey ==
    \A k \in ItemKeys :
        IF upserted[k] = NotUpserted THEN RowsOf(k) = {}
        ELSE /\ Cardinality(RowsOf(k)) = 1
             /\ \A i \in RowsOf(k) :
                   /\ worksheet[i].shopee_status = upserted[k].shopee_status
                   /\ worksheet[i].total_sale = upserted[k].total_sale

(***************************************************************************)
(* Properties of the signature verification                                *)
(***************************************************************************)
\* the header is the lowercase hex HMAC-SHA256 of the body under a
\* configured key, its "shpk" prefix stripped
SignedByConfiguredKey ==
    \E key \in {settings.partner_key, settings.webhook_partner_key} \ {<<>>} :
        /\ validation.authorization_header.hex = "lower"
        /\ validation.authorization_header.body = validation.raw_body
        /\ validation.authorization_header.key =
              (IF Head(key) = "shpk" THEN Tail(key) ELSE key)

\* C25: with the debug override off, verify_push_signature accepts a body
\* and a header exactly when the header is not empty, the body is not empty
\* and the header is the lowercase hex HMAC-SHA256 of the body under a
\* configured key with its "shpk" prefix stripped; validate_webhook_request
\* accepts nothing that verify_push_signature rejects.
C25_AcceptsIffSigned ==
    (validation.called /\ ~debug_webhook) =>
        /\ validation.raw_body # "undecodable" =>
              (validation.verified <=>
                  /\ ~NoHeader(validation.authorization_header)
                  /\ validation.raw_body # ""
                  /\ SignedByConfiguredKey)
        /\ validation.is_valid => validation.verified

C25_Witness ==
    /\ validation.called
    /\ ~debug_webhook
    /\ validation.is_valid
    /\ settings.partner_key # <<>>
    /\ Head(settings.partner_key) = "shpk"
    /\ validation.authorization_header.key # Tail(settings.partner_key)
    /\ settings.webhook_partner_key # <<>>

(***************************************************************************)
(* Properties of the runtime configuration                                 *)
(***************************************************************************)
\* C26: an update of the runtime configuration is atomic: at every
\* instant, a crash or an I/O error in the middle of an update included,
\* the file holds a whole mapping, the previous or the new one, and once
\* an update has returned the cache equals the content of the file.
C26_AtomicConfigUpdate ==
    /\ Complete(config_file)
    /\ cfg_pc = "idle" => config_cache = config_file.of

(***************************************************************************)
(* Properties of the breaker under concurrent publish calls                *)
(***************************************************************************)
\* C27: every change of the breaker's state is closed -> open,
\* open -> half_open, half_open -> closed or half_open -> open, under any
\* interleaving of publish calls, recorded outcomes and time.
C27_BreakerTransitions ==
    [][circuit_breaker'.state # circuit_breaker.state =>
          <<circuit_breaker.state, circuit_breaker'.state>> \in
              {<<"closed", "open">>, <<"open", "half_open">>,
               <<"half_open", "closed">>, <<"half_open", "open">>}]_vars

\* record_failure is called in this step
FailureRecorded ==
    circuit_breaker'.failure_count = circuit_breaker.failure_count + 1

\* C28: a failure recorded while the breaker is half_open moves it to open
\* with opened_at set to the current time, so that the next publish within
\* the timeout is short-circuited.
C28_HalfOpenFailureReopens ==
    [][(circuit_breaker.state = "half_open" /\ FailureRecorded) =>
          /\ circuit_breaker'.state = "open"
          /\ circuit_breaker'.opened_at = now
          /\ ~should_attempt_redis(circuit_breaker', now).ret]_vars

\* the caller has a command of its publish pending at Redis
AttemptInFlight(p) == ppc[p] \in {"lpush", "hincrby"}

\* C29: while the breaker is half_open at most one publish attempt is in
\* flight at Redis: a call that finds the breaker half_open while the
\* probe's outcome is not yet recorded does not issue a Redis command.
C29_SingleProbe ==
    [][\A p \in Callers :
          (/\ circuit_breaker.state = "half_open"
           /\ \E q \in Callers \ {p} : AttemptInFlight(q)
           /\ ppc[p] = "idle") => ppc'[p] # "lpush"]_vars

(***************************************************************************)
(* Properties of the background fan-out                                    *)
(***************************************************************************)
\* the place of a side effect in the order audit, fetch, notify, forward
Rank(e) ==
    CASE e = "audit" -> 1 [] e = "fetch" -> 2 [] e = "notify" -> 3
      [] e = "forward" -> 4

\* C30: the side effects of one event happen in the order audit-log write,
\* order-detail fetch (codes 3 and 4 only), notifier submission, producer
\* call, and the audit entry is written before the event is handed to the
\* notifier or to the producer.
C30_AuditThenFetchNotifyForward ==
    /\ \A i, j \in 1..Len(effects) :
          i < j => Rank(effects[i]) < Rank(effects[j])
    /\ \A i \in 1..Len(effects) :
          /\ effects[i] = "fetch" => hev.code \in ORDER_EVENT_CODES
          /\ effects[i] \in {"notify", "forward"} =>
                \E j \in 1..(i - 1) : effects[j] = "audit"

(***************************************************************************)
(* Properties of the dead letter entries                                   *)
(***************************************************************************)
\* C31: an entry of dead_letter is the failed envelope itself: it has the
\* id, the payload and the metadata of the envelope that was published for
\* its order, the metadata extended with moved_to_dlq_at and worker_id only.
C31_DeadLetterKeepsEnvelope ==
    \A i \in 1..Len(dead_letter) :
        LET entry == dead_letter[i]
            published == Envelope(entry.payload.ordersn) IN
        /\ entry.id = published.id
        /\ entry.payload = published.payload
        /\ entry.metadata =
              [published.metadata EXCEPT
                  !.moved_to_dlq_at = entry.metadata.moved_to_dlq_at,
                  !.worker_id = entry.metadata.worker_id]

\* C32: after a process_webhook call that failed on a domain error of the
\* upstream API the worker does not invoke process_webhook again for the
\* envelope in hand.
C32_NoRetryOnDomainError ==
    [][\A w \in Workers :
          api_answer[w] = "error" => invoked'[w] <= invoked[w]]_vars

(***************************************************************************)
(* Properties of the notifier queue's lifecycle                            *)
(***************************************************************************)
\* the consumer tasks that were created and have not ended
ActiveTasks == {t \in TaskIds : task[t] \in {"running", "cancelling"}}

\* the state of the queue: Running while is_running is set, Stopping while
\* a stop() call that cleared it has not returned, else Stopped
Lifecycle ==
    IF q_is_running THEN "Running"
    ELSE IF \E c \in Callers : lpc[c] # "idle" THEN "Stopping"
    ELSE "Stopped"

\* C33: under any interleaving of start() and stop() calls at most one
\* consumer task is active, and the lifecycle only moves Stopped -> Running
\* -> Stopping -> Stopped.
C33_SingleConsumerLifecycle ==
    /\ [](Cardinality(ActiveTasks) <= 1)
    /\ [][Lifecycle' # Lifecycle =>
             <<Lifecycle, Lifecycle'>> \in
                 {<<"Stopped", "Running">>, <<"Running", "Stopping">>,
                  <<"Stopping", "Stopped">>}]_vars

\* C34: a delivery that failed with a 4xx response is not attempted again:
\* the consumer sleeps for a retry only after a timeout or a 5xx response,
\* and no message gets more than TELEGRAM_MAX_RETRIES attempts.
C34_ClientErrorIsTerminal ==
    /\ worker_task = "retry_sleep" => send_response \in {"5xx", "timeout"}
    /\ qattempt + 1 <= TELEGRAM_MAX_RETRIES

(***************************************************************************)
(* Properties of _split_long_message                                       *)
(***************************************************************************)
RECURSIVE Flatten(_)
\* the lines of the chunks, in the order of the chunks
Flatten(chunks) ==
    IF chunks = <<>> THEN <<>> ELSE Head(chunks) \o Flatten(Tail(chunks))

\* C35: the chunks _split_long_message returns are at most 4000 characters
\* long each and together they are the lines of the message, every line
\* once and in the original order.
C35_ChunksBoundedAndComplete ==
    split_chunks # NotSplit =>
        /\ \A i \in 1..Len(split_chunks) :
              JoinedLen(split_chunks[i]) <= MAX_MESSAGE_LENGTH
        /\ Flatten(split_chunks) = split_message

(***************************************************************************)
(* Properties of the syncs that fail                                       *)
(***************************************************************************)
\* C36: a sync_orders_in_range call that did not get the lock has its
\* skipped SyncResult (success false) recorded in the sync history, as a
\* completed sync has.
C36_SkippedSyncIsRecorded ==
    \A s \in Syncs :
        spc[s] = "skipped" =>
            \E i \in 1..Len(recorded) :
                recorded[i].sync_type = s /\ ~recorded[i].success

\* C37: a sync in which an order that was not skipped failed, in its
\* detail fetch or in its upsert, and no order was processed is recorded
\* with success false and a non-empty errors list and leaves
\* last_sync_timestamp as it was.
C37_FailedSyncIsFailure ==
    (/\ loop_result # NoLoop
     /\ CountOf(sync_orders, {"fetch_none", "upsert_false", "raised"}) > 0
     /\ loop_result.orders_processed = 0) =>
        /\ ~recorded[1].success
        /\ loop_result.errors > 0
        /\ last_sync_timestamp = Absent

\* C38: the sync lock key is deleted only by the call that owns it: a step
\* that deletes the existing key is the release of the call whose SET
\* created it, never the step of a call that lost the acquisition or of a
\* call whose own key expired before another call created this one.
C38_OnlyOwnerDeletesLock ==
    [][(LockExists /\ sync_lock' = NoLock) =>
           /\ spc[sync_lock.owner] = "release"
           /\ spc'[sync_lock.owner] = "done"]_vars

\* C39: the replay discards no envelope: the step that ends the handling of
\* an entry taken from the dead letter list leaves that entry, reset, at
\* the head of the main list, also when the LPUSH failed, and counts the
\* entry once in retried + failed.
C39_ReplayKeepsEnvelopes ==
    [][(rpc = "lpush" /\ rpc' # "lpush") =>
           /\ main' # <<>>
           /\ Head(main').payload = rlog.popped.payload
           /\ retried' + failed' = retried + failed + 1]_vars

\* C40: successive successful syncs leave no time uncovered: the time_from
\* that startup_catchup_sync derives from last_sync_timestamp is never
\* later than the time_to of the sync that wrote that timestamp.
C40_CatchupLeavesNoGap ==
    (cpc = "sync" /\ written_to # Absent) => time_from <= written_to

====
